---- MODULE Spec2Model ----
(***************************************************************************)
(* A model of Traversome's heuristic variant path generator                *)
(* (traversome/PathGenerator.py) and of the retry loop of the              *)
(* maximum-likelihood estimator (traversome/ModelFitMaxLike.py).           *)
(*                                                                         *)
(* An oriented contig (v_name, v_end) is a non-zero integer: the contig    *)
(* v_name = |v| read forward (v_end = True) when v > 0 and reverse when    *)
(* v < 0.  A path is a sequence of oriented contigs.                       *)
(*                                                                         *)
(* Random draws are nondeterministic choices over the outcomes that have   *)
(* a positive probability.  A likelihood ratio exp(r) is kept as the       *)
(* rational r * 2 * sigma^2 (sigma the single-copy standard deviation,     *)
(* the same for every entry of one list), which preserves its sign and     *)
(* the order of the entries; the value 0 of the stopping rule's            *)
(* previous_like is kept as NegInf.                                        *)
(***************************************************************************)
EXTENDS Integers, Sequences, FiniteSets, TLC

VARIABLES
    scn,                            \* the run's graph, alignment and configuration
    read_paths,                     \* self.read_paths
    read_paths_counter,             \* self.__read_paths_counter
    starting_subpath_to_readpaths,  \* self.__starting_subpath_to_readpaths
    middle_subpath_to_readpaths,    \* self.__middle_subpath_to_readpaths
    read_paths_counter_indexed,     \* self.__read_paths_counter_indexed
    local_max_alignment_len,        \* self.local_max_alignment_len
    contig_coverages,               \* self.contig_coverages
    candidate_single_copy_vs,       \* self.__candidate_single_copy_vs
    variants,                       \* self.variants
    variants_counts,                \* self.variants_counts
    pc,                             \* position of the calling (main) process
    eng,                            \* the traversal in progress: [path, not_do_reverse, ev]
    count_search,                   \* count_search / g_vars.count_search
    count_valid,                    \* count_valid / g_vars.count_valid
    new_path_list,                  \* main process: the paths of the traversal left to record
    calls,                          \* number of API calls made so far
    error,                          \* the exception that ended the last call, or "none"
    wpc,                            \* multiprocessing: position of each worker
    wlist,                          \* multiprocessing: each worker's new_path_list left
    winvalid,                       \* multiprocessing: each worker's invalid_search
    lock,                           \* multiprocessing: holder of manager.Lock(), 0 when free
    event,                          \* multiprocessing: manager.Event() is set
    m_variants,                     \* multiprocessing: manager.list()
    m_variants_counts,              \* multiprocessing: manager.dict()
    jobs,                           \* multiprocessing: number of jobs submitted
    got,                            \* multiprocessing: number of jobs whose get() returned
    werror,                         \* multiprocessing: the exception that ended each worker
    outcomes,                       \* multiprocessing: what a pass of a worker can compute
    fn                              \* inputs and outcome of a directly called function

vars == <<scn, read_paths, read_paths_counter, starting_subpath_to_readpaths,
          middle_subpath_to_readpaths, read_paths_counter_indexed,
          local_max_alignment_len, contig_coverages, candidate_single_copy_vs, variants,
          variants_counts, pc, eng, count_search, count_valid, new_path_list,
          calls, error, wpc, wlist, winvalid, lock, event, m_variants,
          m_variants_counts, jobs, got, werror, outcomes, fn>>

-----------------------------------------------------------------------------
(* Sequences, sets and rationals                                           *)

Abs(i) == IF i < 0 THEN -i ELSE i

Min2(a, b) == IF a < b THEN a ELSE b

Range(s) == {s[i] : i \in DOMAIN s}

\* s[a..b] of Python's s[a-1:b]
Slice(s, a, b) == IF a > b THEN <<>> ELSE SubSeq(s, a, b)

\* _path.count(x)
Count(s, x) == Cardinality({i \in DOMAIN s : s[i] = x})

\* [v_n for v_n, v_e in path].count(name)
CountName(s, n) == Cardinality({i \in DOMAIN s : Abs(s[i]) = n})

Names(s) == {Abs(s[i]) : i \in DOMAIN s}

RECURSIVE SumOver(_, _)
SumOver(S, f) ==
    IF S = {} THEN 0
    ELSE LET e == CHOOSE e \in S : TRUE IN f[e] + SumOver(S \ {e}, f)

RECURSIVE Gcd(_, _)
Gcd(a, b) == IF b = 0 THEN a ELSE Gcd(b, a % b)

\* a rational <<numerator, denominator>>, denominator > 0, in lowest terms
Rat(n, d) ==
    LET s == IF d < 0 THEN -1 ELSE 1
        k == Gcd(Abs(n), Abs(d))
    IN  IF n = 0 THEN <<0, 1>> ELSE <<(s * n) \div k, (s * d) \div k>>

RatAdd(p, q) ==
    LET k == Gcd(p[2], q[2])
    IN  Rat(p[1] * (q[2] \div k) + q[1] * (p[2] \div k), (p[2] \div k) * q[2])

RatMul(p, q) ==
    LET a == Rat(p[1], q[2])
        b == Rat(q[1], p[2])
    IN  Rat(a[1] * b[1], a[2] * b[2])

RatSub(p, q) == RatAdd(p, <<-q[1], q[2]>>)

RatDiv(p, q) == RatMul(p, Rat(q[2], q[1]))

RatLess(p, q) == RatSub(p, q)[1] < 0

RatLeq(p, q) == RatSub(p, q)[1] <= 0

-----------------------------------------------------------------------------
(* The assembly graph (traversome_obj.graph), an external collaborator     *)

\* the order of Python's sorted() on paths, forward before reverse
VneKey(v) == 2 * Abs(v) + (IF v > 0 THEN 0 ELSE 1)

RECURSIVE PathLess(_, _)
PathLess(p, q) ==
    IF q = <<>> THEN FALSE
    ELSE IF p = <<>> THEN TRUE
    ELSE IF VneKey(p[1]) # VneKey(q[1]) THEN VneKey(p[1]) < VneKey(q[1])
    ELSE PathLess(Tail(p), Tail(q))

MinPath(S) == CHOOSE p \in S : \A q \in S : q = p \/ PathLess(p, q)

\* graph.reverse_path
reverse_path(p) == [i \in 1..Len(p) |-> -p[Len(p) + 1 - i]]

\* the connections of a graph given by its forward links
Connections(links) ==
    [v \in {l[1] : l \in links} \cup {-l[2] : l \in links} |->
        {l[2] : l \in {k \in links : k[1] = v}}
        \cup {-l[1] : l \in {k \in links : k[2] = -v}}]

\* graph.vertex_info[name].connections[end], as the oriented contigs that may follow v
next_connections(g, v) ==
    IF v \in DOMAIN g.connections THEN g.connections[v] ELSE {}

\* graph.is_circular_path
is_circular_path(g, p) == p # <<>> /\ p[1] \in next_connections(g, p[Len(p)])

\* graph.contain_path
contain_path(g, p) ==
    /\ p # <<>>
    /\ \A i \in DOMAIN p : Abs(p[i]) \in DOMAIN g.vertex_len
    /\ \A i \in 1..(Len(p) - 1) : p[i + 1] \in next_connections(g, p[i])

\* graph.is_fully_covered_by
is_fully_covered_by(g, p) == DOMAIN g.vertex_len \subseteq Names(p)

\* graph.get_standardized_path
get_standardized_path(g, p) == MinPath({p, reverse_path(p)})

Rotations(p) == {SubSeq(p, k, Len(p)) \o SubSeq(p, 1, k - 1) : k \in 1..Len(p)}

\* graph.get_standardized_path_circ
get_standardized_path_circ(g, p) ==
    IF is_circular_path(g, p)
    THEN MinPath(Rotations(p) \cup Rotations(reverse_path(p)))
    ELSE get_standardized_path(g, p)

\* graph.roll_path: the repeating unit of a path
roll_path(g, p) ==
    LET periods == {k \in 1..Len(p) : \A i \in 1..(Len(p) - k) : p[i] = p[i + k]}
        k == CHOOSE k \in periods : \A j \in periods : k <= j
    IN  IF p = <<>> THEN p ELSE SubSeq(p, 1, k)

\* graph.get_path_internal_length: the contigs strictly between the two ends
get_path_internal_length(g, p) ==
    SumOver(2..(Len(p) - 1), [i \in 2..(Len(p) - 1) |-> g.vertex_len[Abs(p[i])]])

-----------------------------------------------------------------------------
(* PathGenerator: the subpath index                                        *)

\* the generator's fields read by a traversal (a worker holds a copy of them)
Self ==
    [read_paths |-> read_paths,
     read_paths_counter |-> read_paths_counter,
     starting_subpath_to_readpaths |-> starting_subpath_to_readpaths,
     middle_subpath_to_readpaths |-> middle_subpath_to_readpaths,
     local_max_alignment_len |-> local_max_alignment_len,
     contig_coverages |-> contig_coverages,
     candidate_single_copy_vs |-> candidate_single_copy_vs]

\* the read-path loop of index_readpaths_subpaths over alignment records i..: the
\* counter starts empty at every call, self.read_paths is kept
RECURSIVE CountReadPaths(_, _, _, _)
CountReadPaths(g, i, counter, rps) ==
    IF i > Len(g.alignment) THEN [counter |-> counter, read_paths |-> rps]
    ELSE LET this_read_path == get_standardized_path(g, g.alignment[i].path)
         IN  IF ~contain_path(g, this_read_path)
             THEN CountReadPaths(g, i + 1, counter, rps)
             ELSE IF this_read_path \in DOMAIN counter
             THEN CountReadPaths(g, i + 1,
                      [counter EXCEPT ![this_read_path] = @ + 1], rps)
             ELSE CountReadPaths(g, i + 1,
                      (this_read_path :> 1) @@ counter, Append(rps, this_read_path))

\* alignment_lengths: the records whose path the graph contains
alignment_lengths(g) ==
    {g.alignment[i].p_align_len :
        i \in {j \in DOMAIN g.alignment :
                 contain_path(g, get_standardized_path(g, g.alignment[j].path))}}

\* prefixes up to the whole read: range(1, read_contig_num + 1) in place of line 163
StartSubpaths_with_whole_read(rps) ==
    UNION {
        {<<SubSeq(rps[id], 1, k), id, TRUE>> : k \in 1..Len(rps[id])}
        \cup {<<SubSeq(reverse_path(rps[id]), 1, k), id, FALSE>> : k \in 1..Len(rps[id])}
        : id \in DOMAIN rps}

\* the subpaths index_readpaths_subpaths hands to __index_start_subpath, with the
\* read id (the position in self.read_paths, from 1) and the strand
StartSubpaths(rps) ==
    UNION {
        {<<SubSeq(rps[id], 1, k), id, TRUE>> : k \in 1..(Len(rps[id]) - 1)}
        \cup {<<SubSeq(reverse_path(rps[id]), 1, k), id, FALSE>> :
                 k \in 1..(Len(rps[id]) - 1)}
        : id \in DOMAIN rps}

\* windows from the first contig on: range(0, ...) in place of line 170
MiddleSubpaths_from_start(rps) ==
    UNION {
        UNION {
            {<<SubSeq(rps[id], go + 1, go + k), id, TRUE>> :
                go \in 0..(Len(rps[id]) - k - 1)}
            \cup {<<SubSeq(reverse_path(rps[id]), go + 1, go + k), id, FALSE>> :
                go \in 0..(Len(rps[id]) - k - 1)}
            : k \in 1..(Len(rps[id]) - 1)}
        : id \in DOMAIN rps}

\* the subpaths index_readpaths_subpaths hands to __index_middle_subpath
MiddleSubpaths(rps) ==
    UNION {
        UNION {
            {<<SubSeq(rps[id], go + 1, go + k), id, TRUE>> :
                go \in 1..(Len(rps[id]) - k - 1)}
            \cup {<<SubSeq(reverse_path(rps[id]), go + 1, go + k), id, FALSE>> :
                go \in 1..(Len(rps[id]) - k - 1)}
            : k \in 1..(Len(rps[id]) - 1)}
        : id \in DOMAIN rps}

\* __index_start_subpath / __index_middle_subpath over a set of registrations
index_subpaths(idx, regs) ==
    [k \in DOMAIN idx \cup {e[1] : e \in regs} |->
        (IF k \in DOMAIN idx THEN idx[k] ELSE {})
        \cup {<<e[2], e[3]>> : e \in {x \in regs : x[1] = k}}]

Max(S) == CHOOSE m \in S : \A x \in S : x <= m

EmptyMap == [k \in {} |-> 0]

-----------------------------------------------------------------------------
(* PathGenerator: the coverage model                                       *)

\* __check_path: the exception it raises, or "none"
check_path(g, path) ==
    IF path = <<>> THEN "AssertionError"
    ELSE IF \E i \in DOMAIN path : Abs(path[i]) \notin DOMAIN g.vertex_len
    THEN "Exception"
    ELSE "none"

\* v_names of __get_cov_mean after the exclude_path loop: contig -> occurrences left
\* (0: deleted).  A contig excluded more often than it occurs is left as it is.
cov_v_names(path, exclude_path) ==
    [n \in Names(path) |->
        IF CountName(exclude_path, n) > CountName(path, n)
        THEN CountName(path, n)
        ELSE CountName(path, n) - CountName(exclude_path, n)]

\* whether __get_cov_mean reaches its logger.error("cannot exclude ..") line
cov_exclude_logged(path, exclude_path) ==
    \E n \in Names(exclude_path) : CountName(exclude_path, n) > CountName(path, n)

\* __get_cov_mean: [kind, mean, single, logged]; mean and the deviations as rationals
get_cov_mean(g, o, path, exclude_path) ==
    LET v_names == cov_v_names(path, exclude_path)
        kept == {n \in DOMAIN v_names : v_names[n] > 0}
        v_lengths == [n \in kept |-> g.vertex_len[n] * v_names[n]]
        total == SumOver(kept, v_lengths)
        \* sum of (cov / count) * (len * count)
        weighted == SumOver(kept, [n \in kept |-> o.contig_coverages[n] * g.vertex_len[n]])
    IN  IF check_path(g, path) # "none" THEN [kind |-> check_path(g, path)]
        ELSE IF \E n \in kept : n \notin DOMAIN o.contig_coverages
        THEN [kind |-> "KeyError"]
        ELSE IF total = 0 THEN [kind |-> "ZeroDivisionError"]
        ELSE [kind |-> "value",
              mean |-> Rat(weighted, total),
              single |-> Cardinality(kept) = 1,
              logged |-> cov_exclude_logged(path, exclude_path)]

\* the contigs __get_cov_mean_of_single averages over
single_v_names(o, path) ==
    LET counts == [n \in Names(path) |-> CountName(path, n)]
        min_cov == CHOOSE m \in Range(counts) : \A x \in Range(counts) : m <= x
        v_names == {n \in Names(path) : counts[n] = min_cov}
        single_copy_likely == v_names \cap o.candidate_single_copy_vs
    IN  IF single_copy_likely # {} THEN single_copy_likely ELSE v_names

\* __get_cov_mean_of_single: [kind, mean, std_zero]
get_cov_mean_of_single(g, o, path) ==
    LET v_names == single_v_names(o, path)
        total == SumOver(v_names, [n \in v_names |-> g.vertex_len[n]])
        weighted == SumOver(v_names,
                        [n \in v_names |-> o.contig_coverages[n] * g.vertex_len[n]])
        mean == Rat(weighted, total)
    IN  IF check_path(g, path) # "none" THEN [kind |-> check_path(g, path)]
        ELSE IF \E n \in v_names : n \notin DOMAIN o.contig_coverages
        THEN [kind |-> "KeyError"]
        ELSE IF total = 0 THEN [kind |-> "ZeroDivisionError"]
        ELSE [kind |-> "value",
              mean |-> mean,
              \* std: the weighted deviation of several contigs, else mean * 0.1
              std_zero |->
                  IF Cardinality(v_names) > 1
                  THEN \A n \in v_names :
                          g.vertex_len[n] = 0 \/ Rat(o.contig_coverages[n], 1) = mean
                  ELSE mean[1] = 0]

-----------------------------------------------------------------------------
(* PathGenerator: the multiplicity likelihood evaluator                    *)

\* (new_like - old_like) * 2 * sigma^2 of one contig that already occurs current_c
\* times: (old_single_cov - mean)^2 - (new_single_cov - mean)^2
like_change(cov, current_c, mean) ==
    LET old_d == RatSub(Rat(cov, current_c), mean)
        new_d == RatSub(Rat(cov, current_c + 1), mean)
    IN  RatSub(RatMul(old_d, old_d), RatMul(new_d, new_d))

\* log_like_ratio after each contig of proposed_extension[1..k] (times 2 sigma^2):
\* a contig new to the path (old_like = -inf) and a nan likelihood (sigma = 0) both
\* leave min(0, log_like_ratio) = 0
RECURSIVE log_like_ratio(_, _, _, _, _, _)
log_like_ratio(g, o, path, proposed_extension, single, k) ==
    IF k = 0 THEN <<0, 1>>
    ELSE LET v_name == Abs(proposed_extension[k])
             current_c == CountName(path, v_name)
             before == log_like_ratio(g, o, path, proposed_extension, single, k - 1)
             sum == RatAdd(before,
                        RatMul(like_change(o.contig_coverages[v_name], current_c,
                                           single.mean),
                               <<g.vertex_len[v_name], 1>>))
         IN  IF current_c = 0 \/ single.std_zero THEN <<0, 1>>
             ELSE IF sum[1] < 0 THEN sum ELSE <<0, 1>>

\* __cal_multiplicity_like: the list of log likelihood ratios, one per prefix of the
\* extension, each divided by the accumulated contig length of the prefix
cal_multiplicity_like(g, o, path, proposed_extension) ==
    LET single == get_cov_mean_of_single(g, o, path)
        acc(k) == SumOver(1..k, [i \in 1..k |-> g.vertex_len[Abs(proposed_extension[i])]])
    IN  [k \in 1..Len(proposed_extension) |->
            RatDiv(log_like_ratio(g, o, path, proposed_extension, single, k),
                   <<acc(k), 1>>)]

NegInf == <<-1, 0>>

\* draw_prob > 0: some random() accepts
draw_may_accept(like_ratio, previous_like) ==
    \/ previous_like = NegInf
    \/ RatLess(previous_like, like_ratio)

\* a draw that is certain only when it is the first of the loop
draw_certain_at_first_only(like_ratio, previous_like) ==
    like_ratio[1] = 0 /\ previous_like = NegInf

\* a draw that may fail even at draw_prob = 1, as with a random number from [0, 1]
draw_never_certain(like_ratio, previous_like) == FALSE

\* draw_prob >= 1: every random() in [0, 1) accepts.  With previous_like = 1 the
\* quotient is nan or -inf and nothing is accepted.
draw_must_accept(like_ratio, previous_like) ==
    /\ like_ratio[1] = 0
    /\ previous_like = NegInf \/ previous_like[1] < 0

\* the for loop of __heuristic_check_multiplicity from proposed_end down to 1: the
\* lengths it may accept, 0 when it may fall through to its else branch
RECURSIVE check_multiplicity_draws(_, _, _)
check_multiplicity_draws(like_ratio_list, proposed_end, previous_like) ==
    IF proposed_end = 0 THEN {0}
    ELSE LET like_ratio == like_ratio_list[proposed_end]
         IN  (IF draw_may_accept(like_ratio, previous_like) THEN {proposed_end} ELSE {})
             \cup (IF draw_must_accept(like_ratio, previous_like) THEN {}
                   ELSE check_multiplicity_draws(like_ratio_list, proposed_end - 1,
                                                 like_ratio))

-----------------------------------------------------------------------------
(* PathGenerator: the path extension engine                                *)

\* a traversal: st is "extending" (a call of __heuristic_extend_path is due),
\* "returned" or "raised"; ev names the branch that led here
Traversal(st, path, not_do_reverse, ev) ==
    [st |-> st, path |-> path, not_do_reverse |-> not_do_reverse, ev |-> ev]

\* __heuristic_extend_path with an empty path: the start read path, in either direction
start_path(o) ==
    IF o.read_paths = <<>>
    THEN {Traversal("raised", <<>>, FALSE, "IndexError")}
    ELSE UNION {{Traversal("extending", o.read_paths[id], FALSE, "start"),
                 Traversal("extending", reverse_path(o.read_paths[id]), FALSE, "start")} :
                id \in DOMAIN o.read_paths}

\* __heuristic_check_multiplicity whose retry from the other end passes
\* not_do_reverse on as it got it, in place of True at line 1021
check_multiplicity_flag_kept(g, o, path, proposed_extension, not_do_reverse) ==
    LET like_ratio_list == cal_multiplicity_like(g, o, path, proposed_extension)
        draws == check_multiplicity_draws(like_ratio_list, Len(proposed_extension), NegInf)
    IN  IF proposed_extension = <<>>
        THEN {Traversal("raised", path, not_do_reverse, "AssertionError")}
        ELSE IF get_cov_mean_of_single(g, o, path).kind # "value"
        THEN {Traversal("raised", path, not_do_reverse,
                        get_cov_mean_of_single(g, o, path).kind)}
        ELSE {IF proposed_end > 0
              THEN Traversal("extending",
                             path \o SubSeq(proposed_extension, 1, proposed_end),
                             not_do_reverse, "accepted")
              ELSE IF not_do_reverse
              THEN Traversal("returned", path, not_do_reverse, "rejected_end")
              ELSE Traversal("extending", reverse_path(path), not_do_reverse,
                             "rejected_reverse") :
              proposed_end \in draws}

\* __heuristic_check_multiplicity
heuristic_check_multiplicity(g, o, path, proposed_extension, not_do_reverse) ==
    LET like_ratio_list == cal_multiplicity_like(g, o, path, proposed_extension)
        draws == check_multiplicity_draws(like_ratio_list, Len(proposed_extension), NegInf)
    IN  IF proposed_extension = <<>>
        THEN {Traversal("raised", path, not_do_reverse, "AssertionError")}
        ELSE IF get_cov_mean_of_single(g, o, path).kind # "value"
        THEN {Traversal("raised", path, not_do_reverse,
                        get_cov_mean_of_single(g, o, path).kind)}
        ELSE {IF proposed_end > 0
              THEN Traversal("extending",
                             path \o SubSeq(proposed_extension, 1, proposed_end),
                             not_do_reverse, "accepted")
              ELSE IF not_do_reverse
              THEN Traversal("returned", path, not_do_reverse, "rejected_end")
              ELSE Traversal("extending", reverse_path(path), TRUE, "rejected_reverse") :
              proposed_end \in draws}

\* the overlaps the candidate loop of __heuristic_extend_path looks up before its break
overlap_c_nums(g, o, path) ==
    {k \in 1..Len(path) :
        \A j \in 1..k :
            get_path_internal_length(g,
                Append(SubSeq(path, Len(path) - j + 1, Len(path)), 0))
            < o.local_max_alignment_len}

\* candidate_ls_list, flattened: <<read id, strand, overlap>>
starting_candidates(g, o, path) ==
    UNION {{<<c[1], c[2], k>> :
               c \in o.starting_subpath_to_readpaths[
                        SubSeq(path, Len(path) - k + 1, Len(path))]} :
           k \in {j \in overlap_c_nums(g, o, path) :
                    SubSeq(path, Len(path) - j + 1, Len(path))
                    \in DOMAIN o.starting_subpath_to_readpaths}}

\* the candidates kept by the decay_t break: those of an overlap reached before
\* num_reads_used >= decay_t
drawn_candidates(g, o, path) ==
    LET all == starting_candidates(g, o, path)
        used(k) == SumOver({c \in all : c[3] < k},
                       [c \in {d \in all : d[3] < k} |->
                           o.read_paths_counter[o.read_paths[c[1]]]])
    IN  {c \in all : used(c[3]) < g.decay_t}

\* a free end without a neighbour ends the traversal whether or not the other end
\* has been tried
no_next_vertex_ends(g, path, not_do_reverse) ==
    {Traversal("returned", path, not_do_reverse, "no_next_end")}

\* lines 704-712: the last contig's free end has no neighbour in the graph
no_next_vertex(g, path, not_do_reverse) ==
    IF not_do_reverse
    THEN {Traversal("returned", path, not_do_reverse, "no_next_end")}
    ELSE {Traversal("extending", reverse_path(path), TRUE, "no_next_reverse")}

\* lines 606-841: the extension of a path that has not come to its end within a
\* circle unit
extend_beyond_unit(g, o, path, not_do_reverse) ==
    LET candidates == drawn_candidates(g, o, path)
    IN  IF get_cov_mean(g, o, path, <<>>).kind # "value"
        THEN {Traversal("raised", path, not_do_reverse,
                        get_cov_mean(g, o, path, <<>>).kind)}
        ELSE IF candidates # {}
        THEN UNION {
                 LET read_path == IF c[2] THEN o.read_paths[c[1]]
                                  ELSE reverse_path(o.read_paths[c[1]])
                     new_extend == SubSeq(read_path, c[3] + 1, Len(read_path))
                 IN  heuristic_check_multiplicity(g, o, path, new_extend, not_do_reverse)
                 : c \in candidates}
        ELSE IF path \in DOMAIN o.middle_subpath_to_readpaths
        \* extend both ends from the middle; the call passes no not_do_reverse
        THEN {Traversal("extending",
                        IF c[2] THEN o.read_paths[c[1]]
                        ELSE reverse_path(o.read_paths[c[1]]),
                        FALSE, "middle") :
              c \in o.middle_subpath_to_readpaths[path]}
        ELSE IF next_connections(g, path[Len(path)]) # {}
        THEN UNION {heuristic_check_multiplicity(g, o, path, <<next>>, not_do_reverse) :
                    next \in next_connections(g, path[Len(path)])}
        ELSE no_next_vertex(g, path, not_do_reverse)

\* an extension that goes on around the circle whatever the length of the path
extend_path_without_unit_end(g, o, path, not_do_reverse) ==
    extend_beyond_unit(g, o, path, not_do_reverse)

\* __heuristic_extend_path with a path: the traversals one call leads to
heuristic_extend_path(g, o, path, not_do_reverse) ==
    LET repeating_unit == roll_path(g, path)
    IN  IF /\ Len(path) > Len(repeating_unit)
           /\ get_path_internal_length(g, path) >= o.local_max_alignment_len
        THEN {Traversal("returned", repeating_unit, not_do_reverse, "circle_end")}
        ELSE extend_beyond_unit(g, o, path, not_do_reverse)

\* a traversal result that is rolled to its unit without being standardised
single_traversal_unstandardized(g, path) ==
    roll_path(g, path)

\* get_single_traversal applied to what __heuristic_extend_path returned
single_traversal_result(g, path) == get_standardized_path_circ(g, roll_path(g, path))

-----------------------------------------------------------------------------
(* PathGenerator: the hetero-unit decomposer                               *)

\* tvs.get_variant_sub_paths: the read paths found, in either direction, along the
\* variant, which is read around the circle when it is circular
get_variant_sub_paths(g, o, variant) ==
    LET n == Len(variant)
        window(i, l) == [j \in 1..l |-> variant[((i + j - 2) % n) + 1]]
        found(rp) ==
            \E i \in 1..n :
                /\ is_circular_path(g, variant) \/ i + Len(rp) - 1 <= n
                /\ window(i, Len(rp)) \in {rp, reverse_path(rp)}
    IN  {rp \in Range(o.read_paths) : found(rp)}

\* the positions (from 0) of an oriented contig in the path, in order
RECURSIVE sne_positions(_, _, _)
sne_positions(path, s_n_e, from) ==
    IF from > Len(path) THEN <<>>
    ELSE IF path[from] = s_n_e
    THEN <<from - 1>> \o sne_positions(path, s_n_e, from + 1)
    ELSE sne_positions(path, s_n_e, from + 1)

\* sne_indices.sort(key=lambda x: x[1:]): the starts ordered by their positions
RECURSIVE sort_starts(_, _)
sort_starts(path, starts) ==
    IF starts = {} THEN <<>>
    ELSE LET first == CHOOSE s \in starts :
                          \A t \in starts :
                              sne_positions(path, s, 1)[1] <= sne_positions(path, t, 1)[1]
         IN  <<first>> \o sort_starts(path, starts \ {first})

\* every position of a, moved by step, is the position of b of the same rank
shifted_by(path, a, b, step) ==
    LET k_ids == sne_positions(path, a, 1)
        c_ids == sne_positions(path, b, 1)
    IN  \A i \in 1..Min2(Len(k_ids), Len(c_ids)) :
            (k_ids[i] + step) % Len(path) = c_ids[i]

\* 3.1.1: the last start's occurrences each end right before the first start's next one
consecutive_ends(path, sne) ==
    LET f_ids == sne_positions(path, sne[1], 1)
        e_ids == sne_positions(path, sne[Len(sne)], 1)
        nexts == Tail(f_ids) \o <<f_ids[1]>>
    IN  \A i \in 1..Min2(Len(nexts), Len(e_ids)) :
            (e_ids[i] + 1) % Len(path) = nexts[i]

\* 3.1.2: the while loop that drops a start following the kept one at every occurrence
RECURSIVE keep_first_starts(_, _, _, _, _)
keep_first_starts(path, sne, go_keep_start, go_check_start, step) ==
    IF go_check_start > Len(sne) THEN sne
    ELSE IF shifted_by(path, sne[go_keep_start], sne[go_check_start], step)
    THEN keep_first_starts(path,
             SubSeq(sne, 1, go_check_start - 1)
             \o SubSeq(sne, go_check_start + 1, Len(sne)),
             go_keep_start, go_check_start, step + 1)
    ELSE keep_first_starts(path, sne, go_check_start, go_check_start + 1, 1)

\* 3.1: the starts that are tried for one number of units
sne_indices(path, candidate_starts) ==
    LET sorted == sort_starts(path, candidate_starts)
        kept == keep_first_starts(path, sorted, 1, 2, 1)
    IN  IF consecutive_ends(path, sorted) /\ Len(kept) > 1 THEN Tail(kept) ELSE kept

\* 3.2: the path cut at every occurrence of start_n_e
units_from(path, start_n_e) ==
    LET s_indices == sne_positions(path, start_n_e, 1)
        m == Len(s_indices)
    IN  [u \in 1..m |->
            IF u < m THEN SubSeq(path, s_indices[u] + 1, s_indices[u + 1])
            ELSE SubSeq(path, s_indices[m] + 1, Len(path))
                 \o SubSeq(path, 1, s_indices[1])]

\* tuple(sorted(paths))
RECURSIVE sorted_paths(_)
sorted_paths(ps) ==
    IF ps = <<>> THEN <<>>
    ELSE LET i == CHOOSE i \in DOMAIN ps :
                      \A j \in DOMAIN ps :
                          ps[j] = ps[i] \/ PathLess(ps[i], ps[j])
         IN  <<ps[i]>> \o sorted_paths(SubSeq(ps, 1, i - 1) \o SubSeq(ps, i + 1, Len(ps)))

\* 2.: the copy numbers that may be the number of units
candidate_num_units(g, o, path) ==
    LET unique_vne == Range(path)
        vne_to_copy == [v \in unique_vne |-> Count(path, v)]
        candidate_sc_vertices == Names(path) \cap o.candidate_single_copy_vs
        copies == Range(vne_to_copy)
        counted(c) == {v \in unique_vne :
                          /\ vne_to_copy[v] = c
                          /\ candidate_sc_vertices = {}
                             \/ Abs(v) \in o.candidate_single_copy_vs}
        sum_lens(c) == SumOver(counted(c), [v \in counted(c) |-> g.vertex_len[Abs(v)]])
        weights == [c \in copies |-> c * sum_lens(c)]
        sum_w == SumOver(copies, weights)
        multiples(c) == {d \in copies : d >= c /\ d % c = 0}
        accumulated(c) == SumOver(multiples(c), [d \in multiples(c) |-> weights[d]])
    IN  {c \in copies :
            /\ c > 1
            \* accumulated_weight >= self.__min_unit_similarity
            /\ accumulated(c) * g.min_unit_similarity[2]
               >= g.min_unit_similarity[1] * sum_w}

\* 3.2: shared_len > self.__min_unit_similarity for the units cut at start_n_e
qualified_start(g, path, num_units, start_n_e) ==
    LET unique_vne == Range(path)
        units == units_from(path, start_n_e)
        shared(v) == CHOOSE m \in {Count(units[u], v) : u \in DOMAIN units} :
                         \A u \in DOMAIN units : m <= Count(units[u], v)
        total_base_len == SumOver(unique_vne,
                              [v \in unique_vne |-> g.vertex_len[Abs(v)] * Count(path, v)])
        shared_len == SumOver(unique_vne,
                          [v \in unique_vne |-> shared(v) * g.vertex_len[Abs(v)]])
    IN  num_units * shared_len * g.min_unit_similarity[2]
        > g.min_unit_similarity[1] * total_base_len

\* 3.: qualified_schemes
qualified_schemes(g, o, path) ==
    LET candidate_sc_vertices == Names(path) \cap o.candidate_single_copy_vs
        with_copy(c) == {v \in Range(path) : Count(path, v) = c}
        unit_sc_vertices(c) == {v \in with_copy(c) : Abs(v) \in candidate_sc_vertices}
        candidate_starts(c) ==
            IF unit_sc_vertices(c) # {} THEN unit_sc_vertices(c) ELSE with_copy(c)
        scheme(start_n_e) ==
            sorted_paths([u \in DOMAIN units_from(path, start_n_e) |->
                get_standardized_path_circ(g,
                    roll_path(g, units_from(path, start_n_e)[u]))])
    IN  UNION {{scheme(s) :
                  s \in {t \in Range(sne_indices(path, candidate_starts(c))) :
                           qualified_start(g, path, c, t)}} :
               c \in candidate_num_units(g, o, path)}

\* 3.3 without the test of the read paths: every qualified scheme is kept
supported_schemes_unchecked(g, o, path) == qualified_schemes(g, o, path)

\* 3.3: the schemes whose units reproduce every sub-path of the original path
supported_schemes(g, o, path) ==
    {this_scheme \in qualified_schemes(g, o, path) :
        get_variant_sub_paths(g, o, path)
        \subseteq UNION {get_variant_sub_paths(g, o, this_scheme[u]) :
                           u \in DOMAIN this_scheme}}

\* the units of one scheme of S only
scheme_orders_one_scheme(S) == IF S = {} THEN {<<>>} ELSE S

\* the lists made of every scheme of S once, in any order (qualified_schemes is a
\* Python set, iterated in hash order)
RECURSIVE scheme_orders(_)
scheme_orders(S) ==
    IF S = {} THEN {<<>>}
    ELSE UNION {{sch \o rest : rest \in scheme_orders(S \ {sch})} : sch \in S}

\* __decompose_hetero_units: the outcomes, [kind |-> "list", units] or an exception
decompose_hetero_units(g, o, circular_path) ==
    IF Len(circular_path) < 4
    THEN {[kind |-> "list", units |-> <<circular_path>>]}
    ELSE IF candidate_num_units(g, o, circular_path) = {}
    THEN {[kind |-> "list", units |-> <<circular_path>>]}
    \* v_lengths has one entry per contig name, v_copies one per oriented contig:
    \* v_lengths * v_copies cannot be broadcast when the two differ (and neither is 1)
    ELSE IF /\ Cardinality(Names(circular_path)) # Cardinality(Range(circular_path))
            /\ Cardinality(Names(circular_path)) # 1
    THEN {[kind |-> "ValueError", units |-> <<>>]}
    ELSE IF supported_schemes(g, o, circular_path) = {}
    THEN {[kind |-> "list", units |-> <<circular_path>>]}
    ELSE {[kind |-> "list", units |-> us] :
             us \in scheme_orders(supported_schemes(g, o, circular_path))}

-----------------------------------------------------------------------------
(* Runs: a graph, its alignment records and the generator's configuration  *)

MaxNumSearch == 2

MaxPathLen == 9

MaxCalls == 2

MaxCountSearch == 3

NumProc == 2

Workers == 1..NumProc

DefaultDecayT == 1000

Config(num_search, force_circular, hetero_chromosome) ==
    [num_search |-> num_search,
     force_circular |-> force_circular,
     hetero_chromosome |-> hetero_chromosome,
     use_alignment_cov |-> FALSE,
     decay_t |-> DefaultDecayT,
     min_unit_similarity |-> <<85, 100>>]

Records(path, p_align_len, n) == [i \in 1..n |-> [path |-> path, p_align_len |-> p_align_len]]

\* the circle A(len 100, cov 10) - B(len 50, cov 20) - C(len 100, cov 10) - A, read
\* five times as A+ B+ C+
CircleGraph(p_align_len) ==
    [name |-> "circle",
     vertex_len |-> <<100, 50, 100>>,
     vertex_cov |-> <<10, 20, 10>>,
     connections |-> Connections({<<1, 2>>, <<2, 3>>, <<3, 1>>}),
     alignment |-> Records(<<1, 2, 3>>, p_align_len, 5)]

\* the line 1 - 2 - 3 - 4, read end to end and, in the other direction, in its middle
LineGraph ==
    [name |-> "line",
     vertex_len |-> <<10, 10, 10, 10>>,
     vertex_cov |-> <<10, 10, 12, 10>>,
     connections |-> Connections({<<1, 2>>, <<2, 3>>, <<3, 4>>}),
     alignment |-> <<[path |-> <<1, 2, 3, 4>>, p_align_len |-> 40],
                     [path |-> <<-3, -2>>, p_align_len |-> 20],
                     [path |-> <<1, 2, 3, 4>>, p_align_len |-> 38]>>]

\* the circle 1 - 2 - (3 | 4) - 5 - 1 with two alternative short contigs
BubbleGraph ==
    [name |-> "bubble",
     vertex_len |-> <<10, 10, 1, 1, 10>>,
     vertex_cov |-> <<20, 20, 10, 10, 20>>,
     connections |-> Connections({<<1, 2>>, <<2, 3>>, <<2, 4>>, <<3, 5>>, <<4, 5>>,
                                  <<5, 1>>}),
     alignment |-> <<[path |-> <<2, 3, 5>>, p_align_len |-> 25],
                     [path |-> <<2, 4, 5>>, p_align_len |-> 25],
                     [path |-> <<5, 1, 2>>, p_align_len |-> 32]>>]

\* a plastome: the single-copy regions 1 and 3 between the two copies, 2 and -2, of an
\* inverted repeat, read across each end of the repeat with 3 in either orientation
PlastomeGraph ==
    [name |-> "plastome",
     vertex_len |-> <<100, 20, 10>>,
     vertex_cov |-> <<10, 20, 10>>,
     connections |-> Connections({<<1, 2>>, <<2, 3>>, <<2, -3>>, <<-2, 1>>}),
     alignment |-> <<[path |-> <<1, 2, 3>>, p_align_len |-> 130],
                     [path |-> <<1, 2, -3>>, p_align_len |-> 130],
                     [path |-> <<3, -2, 1>>, p_align_len |-> 130],
                     [path |-> <<-3, -2, 1>>, p_align_len |-> 130]>>]

\* the line 1 - 2 - 3 - 5 - 4 with a link from 5 back to 3, read end to end, in its
\* middle, and across the link back
MiddleGraph ==
    [name |-> "middle",
     vertex_len |-> <<10, 10, 10, 10, 10>>,
     vertex_cov |-> <<10, 10, 10, 10, 10>>,
     connections |-> Connections({<<1, 2>>, <<2, 3>>, <<3, 5>>, <<5, 4>>, <<5, 3>>}),
     alignment |-> <<[path |-> <<1, 2, 3, 5, 4>>, p_align_len |-> 45],
                     [path |-> <<2, 3, 5>>, p_align_len |-> 25],
                     [path |-> <<5, 3>>, p_align_len |-> 15]>>]

Graphs == {CircleGraph(52), CircleGraph(250), LineGraph}

Runs ==
    {g @@ Config(n, fc, hc) :
        g \in Graphs, n \in 0..MaxNumSearch, fc \in BOOLEAN, hc \in BOOLEAN}
    \cup {BubbleGraph @@ Config(1, TRUE, hc) : hc \in BOOLEAN}
    \cup {MiddleGraph @@ Config(1, FALSE, TRUE)}

-----------------------------------------------------------------------------
(* State                                                                   *)

NoTraversal == Traversal("none", <<>>, FALSE, "none")

NoCall == [op |-> "none", out |-> <<>>]

InitGenerator ==
    /\ read_paths = <<>>
    /\ read_paths_counter = EmptyMap
    /\ starting_subpath_to_readpaths = EmptyMap
    /\ middle_subpath_to_readpaths = EmptyMap
    /\ read_paths_counter_indexed = FALSE
    /\ local_max_alignment_len = 0
    /\ contig_coverages = <<>>
    /\ candidate_single_copy_vs = {}
    /\ variants = <<>>
    /\ variants_counts = EmptyMap

InitProcess ==
    /\ pc = "idle"
    /\ eng = NoTraversal
    /\ count_search = 0
    /\ count_valid = 0
    /\ new_path_list = <<>>
    /\ calls = 0
    /\ error = "none"
    /\ fn = NoCall

InitWorkers ==
    /\ wpc = [w \in Workers |-> "idle"]
    /\ wlist = [w \in Workers |-> <<>>]
    /\ winvalid = [w \in Workers |-> FALSE]
    /\ lock = 0
    /\ event = FALSE
    /\ m_variants = <<>>
    /\ m_variants_counts = EmptyMap
    /\ jobs = 0
    /\ got = 0
    /\ werror = [w \in Workers |-> "none"]
    /\ outcomes = {}

index_vars == <<read_paths, read_paths_counter, starting_subpath_to_readpaths,
                middle_subpath_to_readpaths, read_paths_counter_indexed,
                local_max_alignment_len>>

cov_vars == <<contig_coverages, candidate_single_copy_vs>>

catalog_vars == <<variants, variants_counts>>

worker_vars == <<wpc, wlist, winvalid, lock, event, m_variants, m_variants_counts, jobs,
                 got, werror, outcomes>>

-----------------------------------------------------------------------------
(* PathGenerator: operations of the calling process                        *)

\* index_readpaths_subpaths(filter_by_graph=True); sorted(alignment_lengths)[-1]
\* raises IndexError when no record is kept, after the paths have been indexed
index_readpaths_subpaths ==
    LET counted == CountReadPaths(scn, 1, EmptyMap, read_paths)
    IN  /\ read_paths_counter' = counted.counter
        /\ read_paths' = counted.read_paths
        /\ starting_subpath_to_readpaths' =
               index_subpaths(starting_subpath_to_readpaths,
                              StartSubpaths(counted.read_paths))
        /\ middle_subpath_to_readpaths' =
               index_subpaths(middle_subpath_to_readpaths,
                              MiddleSubpaths(counted.read_paths))
        /\ IF alignment_lengths(scn) = {}
           THEN UNCHANGED <<local_max_alignment_len, read_paths_counter_indexed>>
           ELSE /\ local_max_alignment_len' = Max(alignment_lengths(scn))
                /\ read_paths_counter_indexed' = TRUE

\* estimate_contig_coverages_from_read_paths / use_contig_coverage_from_assembly_graph
estimated_coverages(g, rps) ==
    IF g.use_alignment_cov
    THEN [n \in DOMAIN g.vertex_len |->
             SumOver(DOMAIN rps, [id \in DOMAIN rps |-> CountName(rps[id], n)])]
    ELSE g.vertex_cov

\* estimate_single_copy_vertices
estimate_single_copy_vertices(g) ==
    {n \in DOMAIN g.vertex_len :
        /\ Cardinality(next_connections(g, n)) < 2
        /\ Cardinality(next_connections(g, -n)) < 2}

\* a direct call of index_readpaths_subpaths
CallIndexReadpaths ==
    /\ pc = "idle"
    /\ calls < MaxCalls
    /\ calls' = calls + 1
    /\ index_readpaths_subpaths
    /\ error' = IF alignment_lengths(scn) = {} THEN "IndexError" ELSE "none"
    /\ UNCHANGED <<scn, cov_vars, catalog_vars, pc, eng, count_search, count_valid,
                   new_path_list, fn, worker_vars>>

\* a direct call of get_single_traversal: the call of __heuristic_extend_path([])
CallGetSingleTraversal ==
    /\ pc = "idle"
    /\ calls < MaxCalls
    /\ calls' = calls + 1
    /\ pc' = "single"
    /\ \E t \in start_path(Self) : eng' = t
    /\ error' = "none"
    /\ fn' = [op |-> "get_single_traversal", out |-> <<>>]
    /\ UNCHANGED <<scn, index_vars, cov_vars, catalog_vars, count_search, count_valid,
                   new_path_list, worker_vars>>

\* one call of __heuristic_extend_path on the path of the traversal in progress
ExtendPath ==
    /\ pc \in {"single", "uni_traversal"}
    /\ eng.st = "extending"
    /\ Len(eng.path) <= MaxPathLen
    /\ \E t \in heuristic_extend_path(scn, Self, eng.path, eng.not_do_reverse) : eng' = t
    /\ UNCHANGED <<scn, index_vars, cov_vars, catalog_vars, pc, count_search,
                   count_valid, new_path_list, calls, error, fn, worker_vars>>

\* an exception of the traversal ends the call that made it
TraversalRaised ==
    /\ pc \in {"single", "uni_traversal"}
    /\ eng.st = "raised"
    /\ pc' = "idle"
    /\ error' = eng.ev
    /\ eng' = NoTraversal
    /\ UNCHANGED <<scn, index_vars, cov_vars, catalog_vars, count_search, count_valid,
                   new_path_list, calls, fn, worker_vars>>

\* get_single_traversal returns to its direct caller
ReturnSingleTraversal ==
    /\ pc = "single"
    /\ eng.st = "returned"
    /\ pc' = "idle"
    /\ fn' = [op |-> "get_single_traversal",
              out |-> <<single_traversal_result(scn, eng.path)>>]
    /\ eng' = NoTraversal
    /\ UNCHANGED <<scn, index_vars, cov_vars, catalog_vars, count_search, count_valid,
                   new_path_list, calls, error, worker_vars>>

\* generate_heuristic_paths up to the call of __gen_heuristic_paths_uni / _mp
generate_preamble ==
    /\ IF read_paths_counter_indexed
       THEN UNCHANGED index_vars
       ELSE index_readpaths_subpaths
    /\ IF ~read_paths_counter_indexed /\ alignment_lengths(scn) = {}
       THEN UNCHANGED cov_vars
       ELSE /\ contig_coverages' = estimated_coverages(scn, read_paths')
            /\ candidate_single_copy_vs' =
                   candidate_single_copy_vs \cup estimate_single_copy_vertices(scn)

\* generate_heuristic_paths(num_processes=1)
CallGenerateUni ==
    /\ pc = "idle"
    /\ calls < MaxCalls
    /\ calls' = calls + 1
    /\ generate_preamble
    /\ IF ~read_paths_counter_indexed /\ alignment_lengths(scn) = {}
       THEN pc' = "idle" /\ error' = "IndexError"
       ELSE pc' = "uni_while" /\ error' = "none"
    /\ count_search' = 0
    /\ count_valid' = 0
    /\ new_path_list' = <<>>
    /\ fn' = [op |-> "generate_heuristic_paths", out |-> <<>>]
    /\ UNCHANGED <<scn, catalog_vars, eng, worker_vars>>

\* a recording that appends without looking the path up in the count map
recorded_always_append(cat, new_path) ==
    [variants |-> Append(cat.variants, new_path),
     variants_counts |->
         IF new_path \in DOMAIN cat.variants_counts
         THEN [cat.variants_counts EXCEPT ![new_path] = @ + 1]
         ELSE (new_path :> 1) @@ cat.variants_counts]

\* the for loop body of __gen_heuristic_paths_uni and of the worker: the catalog
\* after new_path is recorded
recorded(cat, new_path) ==
    IF new_path \in DOMAIN cat.variants_counts
    THEN [variants |-> cat.variants,
          variants_counts |-> [cat.variants_counts EXCEPT ![new_path] = @ + 1]]
    ELSE [variants |-> Append(cat.variants, new_path),
          variants_counts |-> (new_path :> 1) @@ cat.variants_counts]

\* invalid_search
invalid_search(g, new_path) ==
    \/ g.force_circular /\ ~is_circular_path(g, new_path)
    \/ ~g.hetero_chromosome /\ ~is_fully_covered_by(g, new_path)

\* new_path_list of a valid traversal: the outcomes of the decomposer, or the path
new_path_lists(g, o, new_path) ==
    IF is_circular_path(g, new_path)
    THEN decompose_hetero_units(g, o, new_path)
    ELSE {[kind |-> "list", units |-> <<new_path>>]}

\* the ends get_single_traversal can come to from the traversals in frontier,
\* whatever the draws
RECURSIVE traversals_from(_, _, _, _)
traversals_from(g, o, frontier, seen) ==
    IF frontier = {}
    THEN {t \in seen : t.st # "extending"}
    ELSE LET extending == {t \in frontier : t.st = "extending" /\ Len(t.path) <= MaxPathLen}
             next == UNION {heuristic_extend_path(g, o, t.path, t.not_do_reverse) :
                            t \in extending}
         IN  traversals_from(g, o, next \ (seen \cup frontier), seen \cup frontier)

\* __heuristic_traversal_worker: what one pass of the worker computes before it
\* takes the lock, or the exception that ends the worker there
worker_outcomes(g, o) ==
    UNION {IF t.st = "raised"
           THEN {[kind |-> t.ev, units |-> <<>>, invalid |-> FALSE]}
           ELSE IF invalid_search(g, single_traversal_result(g, t.path))
           THEN {[kind |-> "list", units |-> <<>>, invalid |-> TRUE]}
           ELSE {[kind |-> r.kind, units |-> r.units, invalid |-> FALSE] :
                 r \in new_path_lists(g, o, single_traversal_result(g, t.path))} :
           t \in traversals_from(g, o, start_path(o), {})}

\* __gen_heuristic_paths_uni: while count_valid < self.num_search, the next traversal
UniWhile ==
    /\ pc = "uni_while"
    /\ count_valid < scn.num_search
    /\ count_search < MaxCountSearch
    /\ pc' = "uni_traversal"
    /\ \E t \in start_path(Self) : eng' = t
    /\ UNCHANGED <<scn, index_vars, cov_vars, catalog_vars, count_search, count_valid,
                   new_path_list, calls, error, fn, worker_vars>>

\* __gen_heuristic_paths_uni: the loop is left and generate_heuristic_paths returns
UniReturn ==
    /\ pc = "uni_while"
    /\ ~(count_valid < scn.num_search)
    /\ pc' = "idle"
    /\ fn' = [op |-> "generate_heuristic_paths", out |-> <<"returned">>]
    /\ UNCHANGED <<scn, index_vars, cov_vars, catalog_vars, eng, count_search,
                   count_valid, new_path_list, calls, error, worker_vars>>

\* __gen_heuristic_paths_uni: the traversal has returned; it is checked and decomposed
UniTraversed ==
    /\ pc = "uni_traversal"
    /\ eng.st = "returned"
    /\ count_search' = count_search + 1
    /\ eng' = NoTraversal
    /\ LET new_path == single_traversal_result(scn, eng.path)
       IN  IF invalid_search(scn, new_path)
           THEN /\ pc' = "uni_while"
                /\ UNCHANGED <<new_path_list, error>>
           ELSE \E r \in new_path_lists(scn, Self, new_path) :
                    IF r.kind = "list"
                    THEN /\ pc' = "uni_for"
                         /\ new_path_list' = r.units
                         /\ UNCHANGED error
                    ELSE /\ pc' = "idle"
                         /\ error' = r.kind
                         /\ UNCHANGED new_path_list
    /\ UNCHANGED <<scn, index_vars, cov_vars, catalog_vars, count_valid, calls, fn,
                   worker_vars>>

\* __gen_heuristic_paths_uni: one pass of for new_path in new_path_list
UniRecord ==
    /\ pc = "uni_for"
    /\ IF new_path_list = <<>>
       THEN /\ pc' = "uni_while"
            /\ UNCHANGED <<catalog_vars, count_valid, new_path_list>>
       ELSE LET cat == recorded([variants |-> variants,
                                 variants_counts |-> variants_counts],
                                Head(new_path_list))
            IN  /\ count_valid' = count_valid + 1
                /\ variants' = cat.variants
                /\ variants_counts' = cat.variants_counts
                /\ IF count_valid + 1 = scn.num_search
                   THEN pc' = "uni_while" /\ new_path_list' = Tail(new_path_list)
                   ELSE pc' = "uni_for" /\ new_path_list' = Tail(new_path_list)
    /\ UNCHANGED <<scn, index_vars, cov_vars, eng, count_search, calls, error, fn,
                   worker_vars>>

Init ==
    /\ scn \in Runs
    /\ InitGenerator
    /\ InitProcess
    /\ InitWorkers

Next ==
    \/ CallIndexReadpaths
    \/ CallGetSingleTraversal
    \/ CallGenerateUni
    \/ ExtendPath
    \/ TraversalRaised
    \/ ReturnSingleTraversal
    \/ UniWhile
    \/ UniReturn
    \/ UniTraversed
    \/ UniRecord

Spec == Init /\ [][Next]_vars

\* the steps the running process takes by itself; the calls are its caller's
ProcessStep ==
    \/ ExtendPath
    \/ TraversalRaised
    \/ ReturnSingleTraversal
    \/ UniWhile
    \/ UniReturn
    \/ UniTraversed
    \/ UniRecord

\* the process has a step to take: it is inside a call that has not ended
Running ==
    \/ pc \in {"single", "uni_traversal"} /\ (eng.st = "extending" => Len(eng.path) <= MaxPathLen)
    \/ pc = "uni_while" /\ (count_valid < scn.num_search => count_search < MaxCountSearch)
    \/ pc = "uni_for"

\* weak fairness of the steps of the process, with Running for ENABLED <<ProcessStep>>_vars
FairSpec == Spec /\ ([]<>(~Running) \/ []<><<ProcessStep>>_vars)

-----------------------------------------------------------------------------
(* Properties of single-process generation                                 *)

SumCounts(counts) == SumOver(DOMAIN counts, counts)

\* the variant list holds exactly the keys of the count map, each once
ListsKeysOnce(vs, counts) ==
    /\ Range(vs) = DOMAIN counts
    /\ Cardinality(DOMAIN counts) = Len(vs)

GenerateReturned ==
    /\ pc = "idle"
    /\ fn.op = "generate_heuristic_paths"
    /\ fn.out = <<"returned">>

\* C4: single-process generation started with an empty catalog (the first call on
\* the generator) records one valid variant per counted unit, never more than
\* num_search of them, keeps one list entry per canonical path, and returns only
\* with the occurrence counts summing to num_search exactly
C4_UniReturnsAtNumSearch ==
    (calls = 1 /\ fn.op = "generate_heuristic_paths" /\ error = "none") =>
        /\ SumCounts(variants_counts) = count_valid
        /\ count_valid <= scn.num_search
        /\ ListsKeysOnce(variants, variants_counts)
        /\ GenerateReturned => SumCounts(variants_counts) = scn.num_search

\* the loop has returned after leaving a decomposed unit unrecorded
C4_Witness ==
    /\ calls = 1
    /\ GenerateReturned
    /\ new_path_list # <<>>
    /\ SumCounts(variants_counts) = scn.num_search

\* the structural constraints of the run on one catalog entry
satisfies_constraints(g, path) ==
    /\ g.force_circular => is_circular_path(g, path)
    /\ ~g.hetero_chromosome => is_fully_covered_by(g, path)

\* C5: every path in the variant catalog is circular when force_circular is set
\* and fully covers the graph when hetero_chromosome is disabled
C5_CatalogEntriesSatisfyConstraints ==
    \A i \in DOMAIN variants : satisfies_constraints(scn, variants[i])

C7Scenario ==
    /\ \E a \in {52, 250} : \A k \in DOMAIN CircleGraph(a) : scn[k] = CircleGraph(a)[k]
    /\ scn.num_search = 1
    /\ scn.force_circular

C7Catalog ==
    /\ variants = << <<1, 2, 3>> >>
    /\ variants_counts = (<<1, 2, 3>> :> 1)

\* C7: on the circular three-contig graph with read paths [A+,B+,C+], generation
\* with num_search = 1 and force_circular started on the empty catalog eventually
\* returns with the single variant (A+,B+,C+) counted once, and no other path is
\* ever in the catalog
C7_CircleYieldsSingleVariant ==
    /\ (C7Scenario /\ pc = "uni_while" /\ variants = <<>>) ~> (GenerateReturned /\ C7Catalog)
    /\ [](C7Scenario => Range(variants) \subseteq {<<1, 2, 3>>})

\* generation on the three-contig circle has returned with its single variant
C7_Witness ==
    /\ C7Scenario
    /\ GenerateReturned
    /\ calls = 1
    /\ count_search = 1
    /\ C7Catalog

\* C8: a get_single_traversal call that ended while the index was not built ended
\* with the precondition error of the built flag and returned no path
C8_EngineCallChecksBuiltFlag ==
    (pc = "idle" /\ fn.op = "get_single_traversal" /\ ~read_paths_counter_indexed) =>
        /\ error = "PreconditionError"
        /\ fn.out = <<>>

\* a step of the traversal in which the stopping rule accepted no prefix
rejection_step ==
    /\ eng.st = "extending"
    /\ eng' # eng
    /\ eng'.ev \in {"rejected_end", "rejected_reverse"}

\* C18: when the stopping rule accepts no prefix, the path keeps its contigs: with
\* reversal already attempted the traversal returns the path unchanged, otherwise the
\* whole path is reversed, the reverse-attempted flag is set and extension goes on
\* from the other end, where the next rejection ends the traversal
C18_RejectionReversesOnce ==
    /\ [][rejection_step =>
            IF eng.not_do_reverse
            THEN /\ eng'.ev = "rejected_end"
                 /\ eng'.st = "returned"
                 /\ eng'.path = eng.path
            ELSE /\ eng'.ev = "rejected_reverse"
                 /\ eng'.st = "extending"
                 /\ eng'.path = reverse_path(eng.path)
                 /\ eng'.not_do_reverse
         ]_vars
    /\ [](eng.ev = "rejected_reverse" => eng.not_do_reverse)

\* a traversal that was reversed after a rejection and has now ended on a second one
C18_Witness ==
    /\ eng.ev = "rejected_end"
    /\ eng.st = "returned"
    /\ eng.not_do_reverse
    /\ Len(eng.path) >= 2

\* the working path is longer than its repeating unit and its internal length has
\* reached the maximum observed alignment length
unit_end_due ==
    /\ eng.st = "extending"
    /\ Len(eng.path) > Len(roll_path(scn, eng.path))
    /\ get_path_internal_length(scn, eng.path) >= local_max_alignment_len

\* C24: an extension step on a path that is longer than its repeating unit and whose
\* internal length has reached the maximum alignment length ends the traversal with
\* the repeating unit: nothing is appended and the path is not reversed
C24_UnitEndStopsTraversal ==
    /\ [][(unit_end_due /\ eng' # eng) =>
             eng' = Traversal("returned", roll_path(scn, eng.path), eng.not_do_reverse,
                              "circle_end")
         ]_vars
    /\ [](eng.ev = "circle_end" => eng.st = "returned")

\* a traversal has ended with a repeating unit of three contigs
C24_Witness ==
    /\ eng.st = "returned"
    /\ eng.ev = "circle_end"
    /\ Len(eng.path) = 3

\* the step is due on a path for which neither index yields a candidate and whose
\* last contig has no neighbour at its free end
no_candidate_no_neighbour ==
    /\ eng.st = "extending"
    /\ ~unit_end_due
    /\ get_cov_mean(scn, Self, eng.path, <<>>).kind = "value"
    /\ drawn_candidates(scn, Self, eng.path) = {}
    /\ eng.path \notin DOMAIN middle_subpath_to_readpaths
    /\ next_connections(scn, eng.path[Len(eng.path)]) = {}

\* C25: with no candidate from either index and no neighbour at the free end, the
\* engine reverses the whole path and goes on from the other end if the reverse
\* direction has not been tried, and otherwise returns the path as it is; no traversal
\* ends for lack of a neighbour before the reverse direction has been tried
C25_NoNeighbourReversesThenStops ==
    /\ [][(no_candidate_no_neighbour /\ eng' # eng) =>
             IF eng.not_do_reverse
             THEN eng' = Traversal("returned", eng.path, TRUE, "no_next_end")
             ELSE eng' = Traversal("extending", reverse_path(eng.path), TRUE,
                                   "no_next_reverse")
         ]_vars
    /\ [](eng.ev = "no_next_end" => eng.st = "returned" /\ eng.not_do_reverse)

\* a traversal of the line has ended at a free end after its path was reversed
C25_Witness ==
    /\ eng.st = "returned"
    /\ eng.ev = "no_next_end"
    /\ eng.not_do_reverse
    /\ Len(eng.path) >= 2

\* a step of the traversal in progress that leaves it in progress
extension_step ==
    /\ eng.st = "extending"
    /\ eng' # eng
    /\ eng'.st = "extending"

\* C27: within one traversal the reverse-attempted flag is monotone: once it is set,
\* every later extension step of the traversal runs with it set, on every branch, so
\* that the path is reversed at most once
C27_ReverseFlagMonotone ==
    [][(extension_step /\ eng.not_do_reverse) =>
          /\ eng'.not_do_reverse
          /\ eng'.ev \notin {"rejected_reverse", "no_next_reverse"}
      ]_vars

-----------------------------------------------------------------------------
(* PathGenerator: multi-process generation                                 *)

MPRuns ==
    {PlastomeGraph @@ Config(1, TRUE, TRUE)}
    \cup {CircleGraph(52) @@ Config(n, TRUE, FALSE) : n \in 0..MaxNumSearch}

InMP == pc \in {"mp_submit", "mp_submitted", "mp_get", "mp_wait"}

worker_local_vars == <<wpc, wlist, winvalid, werror>>

\* the pool and the manager of the call are gone: their state is no longer kept
PoolGone ==
    /\ wpc' = [w \in Workers |-> "idle"]
    /\ wlist' = [w \in Workers |-> <<>>]
    /\ winvalid' = [w \in Workers |-> FALSE]
    /\ werror' = [w \in Workers |-> "none"]
    /\ lock' = 0
    /\ event' = FALSE
    /\ m_variants' = <<>>
    /\ m_variants_counts' = EmptyMap
    /\ count_search' = 0
    /\ count_valid' = 0
    /\ jobs' = 0
    /\ got' = 0

\* an acquisition that goes through whoever holds the lock
lock_not_checked(l) == TRUE

\* lock.acquire() goes through when the lock is free
lock_is_free(l) == l = 0

\* a get() that returns although the worker of the job has raised
job_failure_ignored(worker_pc) == FALSE

\* job.get() re-raises the exception that ended the worker of the job
job_failed(worker_pc) == worker_pc = "raised"

\* a test that lets one more path through once the target is reached
target_passed(valid, num_search) == valid > num_search

\* if g_vars.count_valid >= self.num_search, in the for loop of the worker
target_reached(valid, num_search) == valid >= num_search

\* the lock kept through continue after an invalid traversal
lock_kept_when_invalid(l, invalid) == l

\* if invalid_search: lock.release(); continue
lock_after_count(l, invalid) == IF invalid THEN 0 ELSE l

\* generate_heuristic_paths(num_processes=NumProc) up to the first apply_async:
\* the manager's objects are created afresh
generate_mp_begins ==
    /\ pc = "idle"
    /\ calls < MaxCalls
    /\ calls' = calls + 1
    /\ generate_preamble
    /\ IF ~read_paths_counter_indexed /\ alignment_lengths(scn) = {}
       THEN pc' = "idle" /\ error' = "IndexError"
       ELSE pc' = "mp_submit" /\ error' = "none"
    /\ m_variants_counts' = EmptyMap
    /\ m_variants' = <<>>
    /\ count_search' = 0
    /\ count_valid' = 0
    /\ lock' = 0
    /\ event' = FALSE
    /\ jobs' = 0
    /\ got' = 0
    /\ wpc' = [w \in Workers |-> "idle"]
    /\ wlist' = [w \in Workers |-> <<>>]
    /\ winvalid' = [w \in Workers |-> FALSE]
    /\ werror' = [w \in Workers |-> "none"]
    /\ fn' = [op |-> "generate_heuristic_paths", out |-> <<>>]
    /\ UNCHANGED <<scn, catalog_vars, eng, new_path_list>>

\* the call with the results of the traversals left open
CallGenerateMP ==
    /\ generate_mp_begins
    /\ outcomes' = IF pc' = "idle" THEN {} ELSE worker_outcomes(scn, Self')

\* jobs.append(pool_obj.apply_async(..)): the next worker starts its loop
Submit ==
    /\ pc = "mp_submit"
    /\ pc' = "mp_submitted"
    /\ jobs' = jobs + 1
    /\ wpc' = [wpc EXCEPT ![jobs + 1] = "while"]
    /\ UNCHANGED <<scn, index_vars, cov_vars, catalog_vars, eng, count_search, count_valid,
                   new_path_list, calls, error, fn, wlist, winvalid, lock, event,
                   m_variants, m_variants_counts, got, werror, outcomes>>

\* if global_vars.count_valid >= self.num_search: break, and the end of range(num_proc)
Submitted ==
    /\ pc = "mp_submitted"
    /\ pc' = IF count_valid >= scn.num_search \/ jobs = NumProc
             THEN "mp_get" ELSE "mp_submit"
    /\ UNCHANGED <<scn, index_vars, cov_vars, catalog_vars, eng, count_search, count_valid,
                   new_path_list, calls, error, fn, worker_vars>>

\* job.get() of the next job, which re-raises the exception of its worker; after the
\* last one pool_obj.close() and the call of event.wait()
JobGet ==
    /\ pc = "mp_get"
    /\ IF got = jobs
       THEN /\ pc' = "mp_wait"
            /\ UNCHANGED <<got, error, count_search, count_valid, wpc, wlist, winvalid,
                           lock, event, m_variants, m_variants_counts, jobs, werror>>
       ELSE /\ wpc[got + 1] \in {"done", "raised"}
            /\ IF job_failed(wpc[got + 1])
               THEN pc' = "idle" /\ error' = werror[got + 1] /\ PoolGone
               ELSE /\ pc' = "mp_get" /\ got' = got + 1
                    /\ UNCHANGED <<error, count_search, count_valid, wpc, wlist, winvalid,
                                   lock, event, m_variants, m_variants_counts, jobs, werror>>
    /\ UNCHANGED <<scn, index_vars, cov_vars, catalog_vars, eng, new_path_list, calls, fn,
                   outcomes>>

\* event.wait() returns; terminate, join, and the catalog is taken from the manager
EventWait ==
    /\ pc = "mp_wait"
    /\ event
    /\ pc' = "idle"
    /\ variants_counts' = m_variants_counts
    /\ variants' = m_variants
    /\ fn' = [op |-> "generate_heuristic_paths", out |-> <<"returned">>]
    /\ PoolGone
    /\ UNCHANGED <<scn, index_vars, cov_vars, eng, new_path_list, calls, error, outcomes>>

\* while g_vars.count_valid < self.num_search, and the pass computed outside the lock
WorkerWhile(w) ==
    /\ InMP
    /\ wpc[w] = "while"
    /\ IF count_valid < scn.num_search
       THEN \E o \in outcomes :
                /\ o.invalid => count_search < MaxCountSearch
                /\ IF o.kind = "list"
                   THEN /\ wpc' = [wpc EXCEPT ![w] = "traversed"]
                        /\ wlist' = [wlist EXCEPT ![w] = o.units]
                        /\ winvalid' = [winvalid EXCEPT ![w] = o.invalid]
                        /\ UNCHANGED werror
                   ELSE /\ wpc' = [wpc EXCEPT ![w] = "raised"]
                        /\ werror' = [werror EXCEPT ![w] = o.kind]
                        /\ UNCHANGED <<wlist, winvalid>>
       ELSE /\ wpc' = [wpc EXCEPT ![w] = "done"]
            /\ UNCHANGED <<wlist, winvalid, werror>>
    /\ UNCHANGED <<scn, index_vars, cov_vars, catalog_vars, pc, eng, count_search,
                   count_valid, new_path_list, calls, error, fn, lock, event, m_variants,
                   m_variants_counts, jobs, got, outcomes>>

\* lock.acquire()
WorkerAcquire(w) ==
    /\ InMP
    /\ wpc[w] = "traversed"
    /\ lock_is_free(lock)
    /\ lock' = w
    /\ wpc' = [wpc EXCEPT ![w] = "locked"]
    /\ UNCHANGED <<scn, index_vars, cov_vars, catalog_vars, pc, eng, count_search,
                   count_valid, new_path_list, calls, error, fn, wlist, winvalid, event,
                   m_variants, m_variants_counts, jobs, got, werror, outcomes>>

\* g_vars.count_search += 1; if invalid_search: lock.release(); continue
WorkerCountSearch(w) ==
    /\ InMP
    /\ wpc[w] = "locked"
    /\ count_search' = count_search + 1
    /\ lock' = lock_after_count(lock, winvalid[w])
    /\ wpc' = [wpc EXCEPT ![w] = IF winvalid[w] THEN "while" ELSE "for"]
    /\ UNCHANGED <<scn, index_vars, cov_vars, catalog_vars, pc, eng, count_valid,
                   new_path_list, calls, error, fn, wlist, winvalid, event, m_variants,
                   m_variants_counts, jobs, got, werror, outcomes>>

\* for new_path in new_path_list: event.set() and break once the target is reached,
\* else g_vars.count_valid += 1
WorkerFor(w) ==
    /\ InMP
    /\ wpc[w] = "for"
    /\ IF wlist[w] = <<>>
       THEN /\ wpc' = [wpc EXCEPT ![w] = "release"]
            /\ UNCHANGED <<event, count_valid>>
       ELSE IF target_reached(count_valid, scn.num_search)
       THEN /\ event' = TRUE
            /\ wpc' = [wpc EXCEPT ![w] = "release"]
            /\ UNCHANGED count_valid
       ELSE /\ count_valid' = count_valid + 1
            /\ wpc' = [wpc EXCEPT ![w] = "counted"]
            /\ UNCHANGED event
    /\ UNCHANGED <<scn, index_vars, cov_vars, catalog_vars, pc, eng, count_search,
                   new_path_list, calls, error, fn, wlist, winvalid, lock, m_variants,
                   m_variants_counts, jobs, got, werror, outcomes>>

\* variants_counts[new_path] += 1, or variants_counts[new_path] = 1
WorkerCount(w) ==
    /\ InMP
    /\ wpc[w] = "counted"
    /\ LET new_path == Head(wlist[w])
       IN  IF new_path \in DOMAIN m_variants_counts
           THEN /\ m_variants_counts' = [m_variants_counts EXCEPT ![new_path] = @ + 1]
                /\ wlist' = [wlist EXCEPT ![w] = Tail(@)]
                /\ wpc' = [wpc EXCEPT ![w] = "for"]
           ELSE /\ m_variants_counts' = (new_path :> 1) @@ m_variants_counts
                /\ wpc' = [wpc EXCEPT ![w] = "append"]
                /\ UNCHANGED wlist
    /\ UNCHANGED <<scn, index_vars, cov_vars, catalog_vars, pc, eng, count_search,
                   count_valid, new_path_list, calls, error, fn, winvalid, lock, event,
                   m_variants, jobs, got, werror, outcomes>>

\* variant.append(new_path)
WorkerAppend(w) ==
    /\ InMP
    /\ wpc[w] = "append"
    /\ m_variants' = Append(m_variants, Head(wlist[w]))
    /\ wlist' = [wlist EXCEPT ![w] = Tail(@)]
    /\ wpc' = [wpc EXCEPT ![w] = "for"]
    /\ UNCHANGED <<scn, index_vars, cov_vars, catalog_vars, pc, eng, count_search,
                   count_valid, new_path_list, calls, error, fn, winvalid, lock, event,
                   m_variants_counts, jobs, got, werror, outcomes>>

\* lock.release() after the for loop
WorkerRelease(w) ==
    /\ InMP
    /\ wpc[w] = "release"
    /\ lock' = 0
    /\ wpc' = [wpc EXCEPT ![w] = "while"]
    /\ UNCHANGED <<scn, index_vars, cov_vars, catalog_vars, pc, eng, count_search,
                   count_valid, new_path_list, calls, error, fn, wlist, winvalid, event,
                   m_variants, m_variants_counts, jobs, got, werror, outcomes>>

WorkerStep(w) ==
    \/ WorkerWhile(w)
    \/ WorkerAcquire(w)
    \/ WorkerCountSearch(w)
    \/ WorkerFor(w)
    \/ WorkerCount(w)
    \/ WorkerAppend(w)
    \/ WorkerRelease(w)

CoordinatorStep ==
    \/ Submit
    \/ Submitted
    \/ JobGet
    \/ EventWait

InitMP ==
    /\ scn \in MPRuns
    /\ InitGenerator
    /\ InitProcess
    /\ InitWorkers

NextMP ==
    \/ CallGenerateMP
    \/ CoordinatorStep
    \/ \E w \in Workers : WorkerStep(w)

SpecMP == InitMP /\ [][NextMP]_vars

\* the main process and every worker process keep running
FairSpecMP ==
    /\ SpecMP
    /\ WF_vars(CoordinatorStep)
    /\ \A w \in Workers : WF_vars(WorkerStep(w))

-----------------------------------------------------------------------------
(* Properties of multi-process generation                                  *)

\* C1: once the shared valid count has reached num_search during a multi-process
\* call, the wait on the termination signal returns and the call ends
C1_TargetReachedLeadsToReturn ==
    (InMP /\ count_valid >= scn.num_search) ~> (pc = "idle")

SharedMutated ==
    \/ count_search' # count_search
    \/ count_valid' # count_valid
    \/ m_variants' # m_variants
    \/ m_variants_counts' # m_variants_counts

\* the shared catalog agrees with the shared valid count
SharedCatalogExact ==
    /\ SumCounts(m_variants_counts) = count_valid
    /\ ListsKeysOnce(m_variants, m_variants_counts)

\* C2: during a multi-process call the shared counters, list and count map are
\* changed only by a step of the worker that holds the lock, and whenever no worker
\* holds the lock the occurrence counts sum to the shared valid count and the list
\* holds exactly the keys of the count map, each once
C2_MutationsUnderLock ==
    /\ []((InMP /\ lock = 0) => SharedCatalogExact)
    /\ [][(InMP /\ InMP' /\ SharedMutated) => (lock # 0 /\ wpc'[lock] # wpc[lock])]_vars

\* two valid variants have been committed, the lock is free and a worker waits for it
C2_Witness ==
    /\ InMP
    /\ lock = 0
    /\ count_valid = 2
    /\ SumCounts(m_variants_counts) = 2
    /\ \E w \in Workers : wpc[w] = "traversed"

WorkerFailed == InMP /\ \E w \in Workers : wpc[w] = "raised"

\* C3: the main process never comes to wait for the signal, and so never returns
\* normally, after a worker has raised, and the exception of a worker eventually
\* ends the call
C3_WorkerExceptionReachesCaller ==
    /\ [](pc = "mp_wait" => \A w \in Workers : wpc[w] # "raised")
    /\ WorkerFailed ~> (pc = "idle" /\ error # "none")

\* the multi-process call was ended by the exception of the decomposer in a worker
C3_Witness ==
    /\ pc = "idle"
    /\ fn.op = "generate_heuristic_paths"
    /\ fn.out = <<>>
    /\ error = "ValueError"

holder_past_target ==
    /\ InMP
    /\ lock # 0
    /\ wpc[lock] \in {"locked", "for", "release"}
    /\ count_valid >= scn.num_search

\* C26: during a multi-process call the shared valid count never exceeds num_search,
\* and a worker that holds the lock once the target is reached adds to the search
\* counter only: its paths change neither the catalog nor the valid count
C26_ValidCountNeverExceedsTarget ==
    /\ [](InMP => count_valid <= scn.num_search)
    /\ [][(holder_past_target /\ InMP') =>
             /\ count_valid' = count_valid
             /\ m_variants' = m_variants
             /\ m_variants_counts' = m_variants_counts
             /\ count_search' \in {count_search, count_search + 1}
         ]_vars

\* a worker that finished its traversal after the target was reached has set the
\* signal and is about to release the lock with its path discarded
C26_Witness ==
    /\ InMP
    /\ scn.num_search >= 1
    /\ count_valid = scn.num_search
    /\ count_search > count_valid
    /\ event
    /\ \E w \in Workers : lock = w /\ wpc[w] = "release" /\ wlist[w] # <<>>

\* C28: a worker holds the lock exactly from its acquisition to its one release: it
\* holds it at every position between the two and at no other, so it never starts a
\* traversal or leaves its loop with the lock, and only the holder releases it
C28_LockReleasedOncePerAcquisition ==
    /\ [](InMP =>
            \A w \in Workers :
                (lock = w) <=> (wpc[w] \in {"locked", "for", "counted", "append", "release"}))
    /\ [][(InMP /\ InMP' /\ lock' # lock) =>
             \/ lock = 0 /\ wpc[lock'] = "traversed" /\ wpc'[lock'] = "locked"
             \/ /\ lock # 0 /\ lock' = 0
                /\ wpc[lock] \in {"locked", "release"}
                /\ wpc'[lock] = "while"
         ]_vars

\* a worker has released the lock after an invalid traversal and starts its next one
\* while the other worker holds the lock
C28_Witness ==
    /\ InMP
    /\ count_search >= 2
    /\ \E w, v \in Workers :
           /\ wpc[w] = "while"
           /\ winvalid[w]
           /\ lock = v
           /\ wpc[v] = "for"

-----------------------------------------------------------------------------
(* Multi-process generation with the random generator seeded               *)

\* the traversals a worker can make before its generator is followed no further
MaxDraws == 3

SeededRuns == {BubbleGraph @@ Config(n, TRUE, TRUE) : n \in 1..MaxNumSearch}

\* the results of the successive traversals that a generator state determines
Seeds(g, o) == [1..MaxDraws -> worker_outcomes(g, o)]

\* generate_heuristic_paths(num_processes=NumProc) with self.__random in a given state:
\* the payload pickled once for all workers holds the generator, so that every worker
\* starts from the same state and draws the same traversals
CallGenerateSeeded ==
    /\ generate_mp_begins
    /\ IF pc' = "idle"
       THEN outcomes' = [seed |-> <<>>, left |-> [w \in Workers |-> <<>>]]
       ELSE \E seed \in Seeds(scn, Self') :
                outcomes' = [seed |-> seed, left |-> [w \in Workers |-> seed]]

\* while g_vars.count_valid < self.num_search, and the pass computed outside the lock
\* with the next draws of the worker's generator
SeededWorkerWhile(w) ==
    /\ InMP
    /\ wpc[w] = "while"
    /\ IF count_valid < scn.num_search
       THEN /\ outcomes.left[w] # <<>>
            /\ LET o == Head(outcomes.left[w])
               IN  IF o.kind = "list"
                   THEN /\ wpc' = [wpc EXCEPT ![w] = "traversed"]
                        /\ wlist' = [wlist EXCEPT ![w] = o.units]
                        /\ winvalid' = [winvalid EXCEPT ![w] = o.invalid]
                        /\ UNCHANGED werror
                   ELSE /\ wpc' = [wpc EXCEPT ![w] = "raised"]
                        /\ werror' = [werror EXCEPT ![w] = o.kind]
                        /\ UNCHANGED <<wlist, winvalid>>
            /\ outcomes' = [outcomes EXCEPT !.left[w] = Tail(@)]
       ELSE /\ wpc' = [wpc EXCEPT ![w] = "done"]
            /\ UNCHANGED <<wlist, winvalid, werror, outcomes>>
    /\ UNCHANGED <<scn, index_vars, cov_vars, catalog_vars, pc, eng, count_search,
                   count_valid, new_path_list, calls, error, fn, lock, event, m_variants,
                   m_variants_counts, jobs, got>>

SeededWorkerStep(w) ==
    \/ SeededWorkerWhile(w)
    \/ WorkerAcquire(w)
    \/ WorkerCountSearch(w)
    \/ WorkerFor(w)
    \/ WorkerCount(w)
    \/ WorkerAppend(w)
    \/ WorkerRelease(w)

InitSeeded ==
    /\ scn \in SeededRuns
    /\ InitGenerator
    /\ InitProcess
    /\ InitWorkers

NextSeeded ==
    \/ CallGenerateSeeded
    \/ CoordinatorStep
    \/ \E w \in Workers : SeededWorkerStep(w)

SpecSeeded == InitSeeded /\ [][NextSeeded]_vars

\* for new_path in new_path_list of the worker, on the set of recorded variants
RECURSIVE record_units(_, _, _, _)
record_units(units, seen, valid, num_search) ==
    IF units = <<>> \/ valid >= num_search
    THEN [seen |-> seen, valid |-> valid]
    ELSE record_units(Tail(units), seen \cup {Head(units)}, valid + 1, num_search)

\* the loop of one worker that no other worker interrupts, on the draws of its
\* generator: the variants recorded and the valid count when the loop is left
RECURSIVE recorded_in_order(_, _, _, _)
recorded_in_order(draws, seen, valid, num_search) ==
    IF draws = <<>> \/ valid >= num_search \/ Head(draws).kind # "list"
    THEN [seen |-> seen, valid |-> valid]
    ELSE IF Head(draws).invalid
    THEN recorded_in_order(Tail(draws), seen, valid, num_search)
    ELSE LET r == record_units(Head(draws).units, seen, valid, num_search)
         IN  recorded_in_order(Tail(draws), r.seen, r.valid, num_search)

SeededReturned ==
    /\ pc = "idle"
    /\ calls >= 1
    /\ fn.op = "generate_heuristic_paths"
    /\ fn.out = <<"returned">>

\* C23: the set of variants that a multi-process call returns is determined by the
\* seed: whatever the order in which the workers took the lock, it is the set that the
\* draws of the seeded generator give when they are recorded in their order
C23_SeedDeterminesCatalog ==
    SeededReturned =>
        LET r == recorded_in_order(outcomes.seed, {}, 0, scn.num_search)
        IN  r.valid >= scn.num_search => Range(variants) = r.seen

\* a call has returned the set that the draws give in their order although the seed
\* holds two different variants
C23_InOrderReached ==
    /\ SeededReturned
    /\ scn.num_search = 2
    /\ LET r == recorded_in_order(outcomes.seed, {}, 0, scn.num_search)
       IN  /\ r.valid >= scn.num_search
           /\ Cardinality(r.seen) = 2
           /\ Range(variants) = r.seen

-----------------------------------------------------------------------------
(* PathGenerator.__get_cov_mean called on its own                          *)

MaxCovLen == 2

CovContigs == {1, 2, -2, 4}

RECURSIVE PathsUpTo(_)
PathsUpTo(n) ==
    IF n = 0 THEN {<<>>}
    ELSE PathsUpTo(n - 1)
         \cup {Append(p, v) : p \in {q \in PathsUpTo(n - 1) : Len(q) = n - 1}, v \in CovContigs}

CovRun == CircleGraph(52) @@ Config(1, TRUE, TRUE)

\* the generator after generate_heuristic_paths has indexed the read paths and set the
\* coverages of the three contigs of the circle
InitCov ==
    /\ scn = CovRun
    /\ read_paths = CountReadPaths(scn, 1, EmptyMap, <<>>).read_paths
    /\ read_paths_counter = CountReadPaths(scn, 1, EmptyMap, <<>>).counter
    /\ starting_subpath_to_readpaths = index_subpaths(EmptyMap, StartSubpaths(read_paths))
    /\ middle_subpath_to_readpaths = index_subpaths(EmptyMap, MiddleSubpaths(read_paths))
    /\ read_paths_counter_indexed = TRUE
    /\ local_max_alignment_len = Max(alignment_lengths(scn))
    /\ contig_coverages = estimated_coverages(scn, read_paths)
    /\ candidate_single_copy_vs = estimate_single_copy_vertices(scn)
    /\ variants = <<>>
    /\ variants_counts = EmptyMap
    /\ pc = "idle"
    /\ eng = NoTraversal
    /\ count_search = 0
    /\ count_valid = 0
    /\ new_path_list = <<>>
    /\ calls = 0
    /\ error = "none"
    /\ InitWorkers
    /\ \E path \in PathsUpTo(MaxCovLen) \ {<<>>}, exclude_path \in PathsUpTo(MaxCovLen) :
           fn = [op |-> "none", path |-> path, exclude_path |-> exclude_path,
                 out |-> [kind |-> "none"]]

\* self.__get_cov_mean(path, exclude_path=exclude_path)
CallGetCovMean ==
    /\ fn.op = "none"
    /\ fn' = [fn EXCEPT !.op = "get_cov_mean",
                        !.out = get_cov_mean(scn, Self, fn.path, fn.exclude_path)]
    /\ UNCHANGED <<scn, index_vars, cov_vars, catalog_vars, pc, eng, count_search,
                   count_valid, new_path_list, calls, error, worker_vars>>

\* self.__get_cov_mean(path + path), after the call on path without exclude_path
CallGetCovMeanDoubled ==
    /\ fn.op = "get_cov_mean"
    /\ fn.exclude_path = <<>>
    /\ fn' = [op |-> "get_cov_mean_doubled", path |-> fn.path,
              exclude_path |-> fn.exclude_path, out |-> fn.out,
              out_doubled |-> get_cov_mean(scn, Self, fn.path \o fn.path, <<>>)]
    /\ UNCHANGED <<scn, index_vars, cov_vars, catalog_vars, pc, eng, count_search,
                   count_valid, new_path_list, calls, error, worker_vars>>

NextCov == CallGetCovMean \/ CallGetCovMeanDoubled

SpecCov == InitCov /\ [][NextCov]_vars

\* C9: __get_cov_mean called with an exclude_path that holds some contig more often
\* than the path does ends in an error and returns no coverage value
C9_OverExclusionIsAnError ==
    (fn.op = "get_cov_mean" /\ cov_exclude_logged(fn.path, fn.exclude_path)) =>
        fn.out.kind # "value"

\* C14: the mean __get_cov_mean returns for a path concatenated with itself equals the
\* mean it returns for the path
C14_DoublingLeavesMeanUnchanged ==
    (fn.op = "get_cov_mean_doubled" /\ fn.out.kind = "value") =>
        /\ fn.out_doubled.kind = "value"
        /\ fn.out_doubled.mean = fn.out.mean

-----------------------------------------------------------------------------
(* ModelFitMaxLike.minimize_neg_likelihood and its callers                  *)

RetryBudget == 10000

SuccessCap == 5

\* what optimize.minimize does in the runs of one call: run number i succeeds when
\* period divides i (never when period is 0), and the successful runs come back with
\* the objective values of funs, in turn
Optimizers ==
    {[name |-> "optimizer", period |-> period, funs |-> funs] :
        period \in {0, 1, 3, 2500}, funs \in {<<2, 1, 3>>, <<1, 2>>}}

run_succeeds(o, count_run) == o.period # 0 /\ (count_run + 1) % o.period = 0

run_fun(o, success_runs) == o.funs[(Len(success_runs) % Len(o.funs)) + 1]

\* a choice that takes the first successful run whatever its objective value
first_run(success_runs) == 1

\* sorted(success_runs, key=lambda x: x.fun)[0]: the position in success_runs of the
\* first run among those with the lowest objective value
best_run(success_runs) ==
    CHOOSE i \in DOMAIN success_runs :
        /\ \A j \in DOMAIN success_runs : success_runs[i] <= success_runs[j]
        /\ \A j \in 1..(i - 1) : success_runs[j] > success_runs[i]

InitFit ==
    /\ scn \in Optimizers
    /\ InitGenerator
    /\ pc = "idle"
    /\ eng = NoTraversal
    /\ count_search = 0
    /\ count_valid = 0
    /\ new_path_list = <<>>
    /\ calls = 0
    /\ error = "none"
    /\ InitWorkers
    /\ fn = [op |-> "none", st |-> "idle", count_run |-> 0, success_runs |-> <<>>,
             out |-> 0]

fit_unchanged == <<scn, index_vars, cov_vars, catalog_vars, pc, eng, count_search,
                   count_valid, new_path_list, calls, worker_vars>>

\* point_estimate, or __compute_like_and_criteria for reverse_model_selection, calls
\* minimize_neg_likelihood
CallMinimize ==
    /\ fn.st = "idle"
    /\ \E caller \in {"point_estimate", "reverse_model_selection"} :
           fn' = [fn EXCEPT !.op = caller, !.st = "running"]
    /\ UNCHANGED error
    /\ UNCHANGED fit_unchanged

\* one pass of while count_run < 10000
OptimizerRun ==
    /\ fn.st = "running"
    /\ fn.count_run < RetryBudget
    /\ IF run_succeeds(scn, fn.count_run)
       THEN LET runs == Append(fn.success_runs, run_fun(scn, fn.success_runs))
            IN  IF Len(runs) > SuccessCap
                THEN fn' = [fn EXCEPT !.success_runs = runs, !.st = "left"]
                ELSE fn' = [fn EXCEPT !.success_runs = runs, !.count_run = @ + 1]
       ELSE fn' = [fn EXCEPT !.count_run = @ + 1]
    /\ UNCHANGED error
    /\ UNCHANGED fit_unchanged

\* the loop is left and minimize_neg_likelihood returns the best run, or False (0)
MinimizeReturn ==
    /\ \/ fn.st = "left"
       \/ fn.st = "running" /\ ~(fn.count_run < RetryBudget)
    /\ fn' = [fn EXCEPT !.st = "minimized",
                        !.out = IF fn.success_runs # <<>>
                                THEN best_run(fn.success_runs) ELSE 0]
    /\ UNCHANGED error
    /\ UNCHANGED fit_unchanged

\* if success_run: .. return, else: raise Exception("Likelihood maximization failed.")
CallerContinues ==
    /\ fn.st = "minimized"
    /\ IF fn.out # 0
       THEN fn' = [fn EXCEPT !.st = "returned"] /\ UNCHANGED error
       ELSE fn' = [fn EXCEPT !.st = "raised"] /\ error' = "Exception"
    /\ UNCHANGED fit_unchanged

NextFit ==
    \/ CallMinimize
    \/ OptimizerRun
    \/ MinimizeReturn
    \/ CallerContinues

SpecFit == InitFit /\ [][NextFit]_vars

\* C10: the optimizer is run at most 10000 times and no more once a sixth run has
\* succeeded; the caller raises exactly when all 10000 runs have failed, and then no
\* further run is made; otherwise the run it goes on with has the lowest objective
\* value of the successful runs
C10_ExhaustionIsFatal ==
    /\ fn.count_run <= RetryBudget
    /\ Len(fn.success_runs) <= SuccessCap + 1
    /\ Len(fn.success_runs) = SuccessCap + 1 => fn.st \notin {"running"}
    /\ fn.st = "raised" =>
           /\ fn.success_runs = <<>>
           /\ fn.count_run = RetryBudget
           /\ error = "Exception"
           /\ ~ENABLED OptimizerRun
    /\ (fn.st \in {"minimized", "returned", "raised"} /\ fn.success_runs = <<>>) =>
           fn.out = 0
    /\ (fn.st \in {"minimized", "returned"} /\ fn.success_runs # <<>>) =>
           /\ fn.out \in DOMAIN fn.success_runs
           /\ \A j \in DOMAIN fn.success_runs :
                  fn.success_runs[fn.out] <= fn.success_runs[j]
    /\ fn.st = "returned" => fn.success_runs # <<>> /\ error = "none"

\* all 10000 runs have failed and the caller has raised
C10_Witness ==
    /\ fn.st = "raised"
    /\ fn.count_run = RetryBudget
    /\ fn.op = "reverse_model_selection"
    /\ error = "Exception"

-----------------------------------------------------------------------------
(* index_readpaths_subpaths called on its own, over sets of alignment      *)
(* records                                                                 *)

MaxRecords == 3

\* the paths 1 - 2 - 3 with a loop on 2; <<1, 3>> and <<3, 1>> are not in the graph
IdxPaths ==
    {<<1, 2, 3>>, <<-3, -2, -1>>, <<1, 2, 2, 3>>, <<2, 2, 2>>, <<2, 3>>, <<2>>,
     <<1, 3>>, <<3, 1>>}

RECURSIVE RecordsUpTo(_)
RecordsUpTo(n) ==
    IF n = 0 THEN {<<>>}
    ELSE RecordsUpTo(n - 1)
         \cup {Append(rs, [path |-> p, p_align_len |-> 10 * Len(p)]) :
                  rs \in {q \in RecordsUpTo(n - 1) : Len(q) = n - 1}, p \in IdxPaths}

IdxGraph(alignment) ==
    [name |-> "loop",
     vertex_len |-> <<10, 10, 10>>,
     vertex_cov |-> <<10, 20, 10>>,
     connections |-> Connections({<<1, 2>>, <<2, 2>>, <<2, 3>>}),
     alignment |-> alignment]

IdxRuns == {IdxGraph(rs) @@ Config(1, FALSE, TRUE) : rs \in RecordsUpTo(MaxRecords)}

InitIdx ==
    /\ scn \in IdxRuns
    /\ InitGenerator
    /\ InitProcess
    /\ InitWorkers

NextIdx == CallIndexReadpaths

SpecIdx == InitIdx /\ [][NextIdx]_vars

\* the alignment records whose standardized path the graph contains
consistent_records(g) ==
    {i \in DOMAIN g.alignment :
        contain_path(g, get_standardized_path(g, g.alignment[i].path))}

\* index_readpaths_subpaths has returned at least once
Indexed == calls >= 1 /\ error = "none"

\* C11: after index_readpaths_subpaths, however often it was called, self.read_paths
\* holds each distinct graph-consistent read path exactly once and the counts sum to
\* the number of graph-consistent alignment records
C11_ReadPathsUniqueAndCounted ==
    Indexed =>
        /\ \A i, j \in DOMAIN read_paths : read_paths[i] = read_paths[j] => i = j
        /\ Range(read_paths) = DOMAIN read_paths_counter
        /\ Range(read_paths) =
               {get_standardized_path(scn, scn.alignment[i].path) :
                    i \in consistent_records(scn)}
        /\ SumCounts(read_paths_counter) = Cardinality(consistent_records(scn))

\* read path id as it is read on a strand
stranded(id, strand) ==
    IF strand THEN read_paths[id] ELSE reverse_path(read_paths[id])

\* C12: the starting-subpath index is exact: every proper prefix of every read path and
\* of its reverse complement is registered with (read id, strand), every entry under a
\* key is a read whose first elements on that strand equal the key, and no key is as
\* long as a read registered under it
C12_StartIndexExact ==
    Indexed =>
        /\ \A id \in DOMAIN read_paths, strand \in BOOLEAN :
               \A k \in 1..(Len(read_paths[id]) - 1) :
                   LET key == SubSeq(stranded(id, strand), 1, k)
                   IN  /\ key \in DOMAIN starting_subpath_to_readpaths
                       /\ <<id, strand>> \in starting_subpath_to_readpaths[key]
        /\ \A key \in DOMAIN starting_subpath_to_readpaths :
               \A e \in starting_subpath_to_readpaths[key] :
                   /\ e[1] \in DOMAIN read_paths
                   /\ Len(key) < Len(read_paths[e[1]])
                   /\ SubSeq(stranded(e[1], e[2]), 1, Len(key)) = key

\* two different reads are registered under one starting subpath on the forward strand
\* and under another on the reverse strand
C12_Witness ==
    /\ Indexed
    /\ \E key, yek \in DOMAIN starting_subpath_to_readpaths :
           \E e, f \in DOMAIN read_paths :
               /\ read_paths[e] # read_paths[f]
               /\ {<<e, TRUE>>, <<f, TRUE>>} \subseteq starting_subpath_to_readpaths[key]
               /\ {<<e, FALSE>>, <<f, FALSE>>} \subseteq starting_subpath_to_readpaths[yek]
               /\ Len(key) = 2

\* the windows of a read of length L that touch neither end: first element at position
\* 1 or later, last element at position L - 2 or earlier, counted from 0
interior_starts(id, k) == 1..(Len(read_paths[id]) - k - 1)

\* C13: the middle-subpath index holds, for every read path and its reverse complement,
\* exactly the windows that touch neither end, with (read id, strand); reads of one or
\* two contigs contribute nothing
C13_MiddleIndexIsInterior ==
    Indexed =>
        /\ \A id \in DOMAIN read_paths, strand \in BOOLEAN :
               \A k \in 1..Len(read_paths[id]) : \A go \in interior_starts(id, k) :
                   LET key == SubSeq(stranded(id, strand), go + 1, go + k)
                   IN  /\ key \in DOMAIN middle_subpath_to_readpaths
                       /\ <<id, strand>> \in middle_subpath_to_readpaths[key]
        /\ \A key \in DOMAIN middle_subpath_to_readpaths :
               \A e \in middle_subpath_to_readpaths[key] :
                   /\ e[1] \in DOMAIN read_paths
                   /\ Len(read_paths[e[1]]) >= 3
                   /\ \E go \in interior_starts(e[1], Len(key)) :
                          SubSeq(stranded(e[1], e[2]), go + 1, go + Len(key)) = key

\* a read of two contigs and a read of four are indexed; only the longer one has
\* middle subpaths, and its first contig is not among them
C13_Witness ==
    /\ Indexed
    /\ \E i, j \in DOMAIN read_paths :
           /\ Len(read_paths[i]) = 2
           /\ read_paths[j] = <<1, 2, 2, 3>>
           /\ <<2, 2>> \in DOMAIN middle_subpath_to_readpaths
           /\ <<j, TRUE>> \in middle_subpath_to_readpaths[<<2, 2>>]
           /\ <<1>> \notin DOMAIN middle_subpath_to_readpaths
           /\ \A key \in DOMAIN middle_subpath_to_readpaths :
                  \A e \in middle_subpath_to_readpaths[key] : e[1] # i

-----------------------------------------------------------------------------
(* __cal_multiplicity_like and the stopping rule of                        *)
(* __heuristic_check_multiplicity called on their own                      *)

MaxLikePath == 4

MaxLikeExt == 2

\* the plastome with contigs of different lengths and coverages, so that the coverage
\* of the single-copy contigs has a deviation
LikeGraph ==
    [name |-> "like",
     vertex_len |-> <<10, 5, 10>>,
     vertex_cov |-> <<10, 22, 12>>,
     connections |-> Connections({<<1, 2>>, <<2, 3>>, <<2, -3>>, <<-2, 1>>}),
     alignment |-> <<[path |-> <<1, 2, 3>>, p_align_len |-> 25],
                     [path |-> <<3, -2, 1>>, p_align_len |-> 25]>>]

LikeRun == LikeGraph @@ Config(1, TRUE, FALSE)

\* the paths of n contigs the graph contains
RECURSIVE Walks(_, _)
Walks(g, n) ==
    IF n = 1 THEN {<<v>> : v \in DOMAIN g.connections}
    ELSE {q \in {Append(p, v) : p \in Walks(g, n - 1), v \in DOMAIN g.connections} :
            contain_path(g, q)}

\* a path and a proposed extension that continues it in the graph
LikeInputs ==
    UNION {{<<SubSeq(w, 1, n), SubSeq(w, n + 1, Len(w))>> :
               n \in {m \in 1..MaxLikePath : m < Len(w) /\ Len(w) - m <= MaxLikeExt}} :
           w \in UNION {Walks(LikeRun, l) : l \in 2..(MaxLikePath + MaxLikeExt)}}

\* like_ratio_list of __heuristic_check_multiplicity, as logarithms: cached_like_ls
\* unless it is None or [] (both <<>> here)
like_ratio_list_of(g, o, path, proposed_extension, cached_like_ls) ==
    IF cached_like_ls # <<>> THEN cached_like_ls
    ELSE cal_multiplicity_like(g, o, path, proposed_extension)

\* the generator after generate_heuristic_paths has indexed the read paths and set
\* the coverages, and the arguments of the call to come
InitLike ==
    /\ scn = LikeRun
    /\ read_paths = CountReadPaths(scn, 1, EmptyMap, <<>>).read_paths
    /\ read_paths_counter = CountReadPaths(scn, 1, EmptyMap, <<>>).counter
    /\ starting_subpath_to_readpaths = index_subpaths(EmptyMap, StartSubpaths(read_paths))
    /\ middle_subpath_to_readpaths = index_subpaths(EmptyMap, MiddleSubpaths(read_paths))
    /\ read_paths_counter_indexed = TRUE
    /\ local_max_alignment_len = Max(alignment_lengths(scn))
    /\ contig_coverages = estimated_coverages(scn, read_paths)
    /\ candidate_single_copy_vs = estimate_single_copy_vertices(scn)
    /\ variants = <<>>
    /\ variants_counts = EmptyMap
    /\ pc = "idle"
    /\ eng = NoTraversal
    /\ count_search = 0
    /\ count_valid = 0
    /\ new_path_list = <<>>
    /\ calls = 0
    /\ error = "none"
    /\ InitWorkers
    /\ \E io \in LikeInputs, cached \in BOOLEAN :
           fn = [op |-> "none", path |-> io[1], proposed_extension |-> io[2],
                 cached |-> cached, out |-> <<>>, draws |-> {}]

like_unchanged ==
    UNCHANGED <<scn, index_vars, cov_vars, catalog_vars, pc, eng, count_search,
                count_valid, new_path_list, calls, error, worker_vars>>

\* self.__cal_multiplicity_like(path, proposed_extension, logarithm=True)
CallCalMultiplicityLike ==
    /\ fn.op = "none"
    /\ ~fn.cached
    /\ fn' = [fn EXCEPT !.op = "cal_multiplicity_like",
                        !.out = cal_multiplicity_like(scn, Self, fn.path,
                                                      fn.proposed_extension)]
    /\ like_unchanged

\* the draw loop of self.__heuristic_check_multiplicity(path, proposed_extension, ..),
\* with the list the caller computed at line 787 as cached_like_ls, or without
CallCheckMultiplicity ==
    /\ fn.op = "none"
    /\ LET cached_like_ls ==
               IF fn.cached
               THEN cal_multiplicity_like(scn, Self, fn.path, fn.proposed_extension)
               ELSE <<>>
           like_ratio_list == like_ratio_list_of(scn, Self, fn.path,
                                                 fn.proposed_extension, cached_like_ls)
       IN  fn' = [fn EXCEPT !.op = "check_multiplicity",
                            !.out = like_ratio_list,
                            !.draws = check_multiplicity_draws(
                                          like_ratio_list, Len(fn.proposed_extension),
                                          NegInf)]
    /\ like_unchanged

NextLike == CallCalMultiplicityLike \/ CallCheckMultiplicity

SpecLike == InitLike /\ [][NextLike]_vars

\* C15: the list __cal_multiplicity_like returns in logarithmic form is non-increasing
\* along the extension and every entry is at most 0
C15_LogRatiosNonIncreasing ==
    fn.op = "cal_multiplicity_like" =>
        /\ \A k \in DOMAIN fn.out : RatLeq(fn.out[k], <<0, 1>>)
        /\ \A k \in DOMAIN fn.out : k > 1 => RatLeq(fn.out[k], fn.out[k - 1])

\* the draw for length k is made: no longer length is accepted whatever the draw
draw_reached(like_ratio_list, k) ==
    \A j \in (k + 1)..Len(like_ratio_list) :
        ~draw_must_accept(like_ratio_list[j],
                          IF j = Len(like_ratio_list) THEN NegInf
                          ELSE like_ratio_list[j + 1])

\* 0 <= draw_prob <= 1 for draw_prob = (like_ratio - previous_like) / (1 - previous_like)
\* with both ratios given by their logarithms
draw_prob_in_unit_interval(like_ratio, previous_like) ==
    /\ RatLeq(like_ratio, <<0, 1>>)
    /\ previous_like = NegInf \/ (previous_like[1] < 0 /\ RatLeq(previous_like, like_ratio))

\* C16: every draw probability of the stopping rule lies in [0, 1], so that the draws
\* telescope: a prefix of length k or longer is accepted with the probability given
\* by the ratio at length k (with certainty exactly when that ratio is 1)
C16_DrawsTelescope ==
    fn.op = "check_multiplicity" =>
        /\ \A k \in DOMAIN fn.out :
               draw_reached(fn.out, k) =>
                   draw_prob_in_unit_interval(fn.out[k],
                       IF k = Len(fn.out) THEN NegInf ELSE fn.out[k + 1])
        /\ \A k \in DOMAIN fn.out :
               (fn.draws \subseteq k..Len(fn.out)) <=> (fn.out[k] = <<0, 1>>)

\* C17: a proposed extension whose log likelihood ratios are all zero is accepted at
\* its full length whatever the random draw, with the list cached or computed
C17_AllZerosAcceptLongest ==
    (fn.op = "check_multiplicity" /\ \A k \in DOMAIN fn.out : fn.out[k] = <<0, 1>>) =>
        fn.draws = {Len(fn.proposed_extension)}

\* an extension of two contigs with ratios all zero went through the rule, uncached
C17_Witness ==
    /\ fn.op = "check_multiplicity"
    /\ ~fn.cached
    /\ Len(fn.proposed_extension) = 2
    /\ fn.out = <<<<0, 1>>, <<0, 1>>>>
    /\ fn.draws = {2}

-----------------------------------------------------------------------------
(* The draw loop of __heuristic_check_multiplicity on any list of ratios   *)

MaxRatios == 3

\* the ratios 0, exp(-2), exp(-1) and 1, by their logarithms
LogRatios == {NegInf, <<-2, 1>>, <<-1, 1>>, <<0, 1>>}

\* like_ratio_list: one ratio in [0, 1] per length of the proposed extension
RatioLists == UNION {[1..n -> LogRatios] : n \in 1..MaxRatios}

\* the values of previous_like with which draw_prob = (like_ratio - previous_like) /
\* (1. - previous_like) is computed in the loop from proposed_end down to 1, on any
\* run of the random numbers
RECURSIVE draw_loop_divisions(_, _, _)
draw_loop_divisions(like_ratio_list, proposed_end, previous_like) ==
    IF proposed_end = 0 THEN {}
    ELSE {previous_like}
         \cup (IF draw_must_accept(like_ratio_list[proposed_end], previous_like) THEN {}
               ELSE draw_loop_divisions(like_ratio_list, proposed_end - 1,
                                        like_ratio_list[proposed_end]))

\* the generator as in InitLike, and the list the loop is about to walk
InitDraw ==
    /\ scn = LikeRun
    /\ read_paths = CountReadPaths(scn, 1, EmptyMap, <<>>).read_paths
    /\ read_paths_counter = CountReadPaths(scn, 1, EmptyMap, <<>>).counter
    /\ starting_subpath_to_readpaths = index_subpaths(EmptyMap, StartSubpaths(read_paths))
    /\ middle_subpath_to_readpaths = index_subpaths(EmptyMap, MiddleSubpaths(read_paths))
    /\ read_paths_counter_indexed = TRUE
    /\ local_max_alignment_len = Max(alignment_lengths(scn))
    /\ contig_coverages = estimated_coverages(scn, read_paths)
    /\ candidate_single_copy_vs = estimate_single_copy_vertices(scn)
    /\ variants = <<>>
    /\ variants_counts = EmptyMap
    /\ pc = "idle"
    /\ eng = NoTraversal
    /\ count_search = 0
    /\ count_valid = 0
    /\ new_path_list = <<>>
    /\ calls = 0
    /\ error = "none"
    /\ InitWorkers
    /\ \E like_ratio_list \in RatioLists :
           fn = [op |-> "none", like_ratio_list |-> like_ratio_list, draws |-> {},
                 previous |-> {}]

\* the for loop at lines 986-997 over the cached like_ratio_list
CallDrawLoop ==
    /\ fn.op = "none"
    /\ fn' = [fn EXCEPT !.op = "draw_loop",
                        !.draws = check_multiplicity_draws(fn.like_ratio_list,
                                      Len(fn.like_ratio_list), NegInf),
                        !.previous = draw_loop_divisions(fn.like_ratio_list,
                                         Len(fn.like_ratio_list), NegInf)]
    /\ like_unchanged

NextDraw == CallDrawLoop

SpecDraw == InitDraw /\ [][NextDraw]_vars

\* C29: the stopping rule never divides by zero: no draw probability is computed with
\* a previous ratio of 1, since a step whose ratio is 1 is always accepted and ends
\* the loop
C29_NoDivisionByZero ==
    fn.op = "draw_loop" =>
        /\ <<0, 1>> \notin fn.previous
        /\ \A k \in DOMAIN fn.like_ratio_list :
               fn.like_ratio_list[k] = <<0, 1>> => \A d \in fn.draws : d >= k

\* the loop met a ratio of 1 at its second draw, after a smaller ratio
C29_Witness ==
    /\ fn.op = "draw_loop"
    /\ Len(fn.like_ratio_list) = 3
    /\ fn.like_ratio_list[3] = <<-1, 1>>
    /\ fn.like_ratio_list[2] = <<0, 1>>
    /\ fn.draws = {2, 3}
    /\ fn.previous = {NegInf, <<-1, 1>>}

-----------------------------------------------------------------------------
(* __decompose_hetero_units called on its own                              *)

MaxDecLen == 8

\* three circles: 1 - 2 - 3 - 4, the contig 5 linked to itself, and 6 - 7
CirclesGraph ==
    [name |-> "circles",
     vertex_len |-> <<10, 10, 10, 10, 10, 10, 10>>,
     vertex_cov |-> <<10, 10, 10, 10, 10, 10, 10>>,
     connections |-> Connections({<<1, 2>>, <<2, 3>>, <<3, 4>>, <<4, 1>>, <<5, 5>>,
                                  <<6, 7>>, <<7, 6>>}),
     alignment |-> <<[path |-> <<1, 2, 3>>, p_align_len |-> 25],
                     [path |-> <<3, 4, 1>>, p_align_len |-> 25],
                     [path |-> <<5, 5>>, p_align_len |-> 15],
                     [path |-> <<6, 7, 6>>, p_align_len |-> 25]>>]

\* a circle 1 - 2 - 3 - 4 whose long contig 3 is found in either orientation
FlipGraph ==
    [name |-> "flip",
     vertex_len |-> <<10, 10, 100, 10>>,
     vertex_cov |-> <<10, 10, 10, 10>>,
     connections |-> Connections({<<1, 2>>, <<2, 3>>, <<2, -3>>, <<3, 4>>, <<-3, 4>>,
                                  <<4, 1>>}),
     alignment |-> <<[path |-> <<2, 3, 4>>, p_align_len |-> 110],
                     [path |-> <<2, -3, 4>>, p_align_len |-> 110],
                     [path |-> <<4, 1, 2>>, p_align_len |-> 25]>>]

\* the bubble with one more read, which runs from one alternative into the other
LinkedBubbleGraph ==
    [BubbleGraph EXCEPT
        !.name = "linked_bubble",
        !.alignment = Append(@, [path |-> <<3, 5, 1, 2, 4>>, p_align_len |-> 32])]

\* a circle through the long contigs 1 and 2 with two alternatives after each of them
\* (3 or 4, 5 or 6); every alternative is also linked to contig 7
TwoSiteGraph ==
    [name |-> "two_site",
     vertex_len |-> <<50, 50, 1, 1, 1, 1, 1>>,
     vertex_cov |-> <<10, 10, 5, 5, 5, 5, 5>>,
     connections |-> Connections({<<1, 3>>, <<1, 4>>, <<3, 2>>, <<4, 2>>, <<2, 5>>,
                                  <<2, 6>>, <<5, 1>>, <<6, 1>>, <<3, 7>>, <<4, 7>>,
                                  <<5, 7>>, <<6, 7>>}),
     alignment |-> <<[path |-> <<1, 3, 2>>, p_align_len |-> 60],
                     [path |-> <<1, 4, 2>>, p_align_len |-> 60],
                     [path |-> <<2, 5, 1>>, p_align_len |-> 60],
                     [path |-> <<2, 6, 1>>, p_align_len |-> 60]>>]

\* m copies of a unit, one after the other
RECURSIVE Copies(_, _)
Copies(unit, m) == IF m = 0 THEN <<>> ELSE unit \o Copies(unit, m - 1)

\* the circular units of CirclesGraph, from every start and in either direction
DecUnits ==
    UNION {Rotations(u) \cup Rotations(reverse_path(u)) :
              u \in {<<1, 2, 3, 4>>, <<5>>, <<6, 7>>}}

\* the circular paths of up to MaxDecLen contigs of a graph
CircularWalks(g) ==
    {p \in UNION {Walks(g, n) : n \in 1..MaxDecLen} : is_circular_path(g, p)}

\* graph, path and, for a path built of m copies of a unit, the unit and m
DecCases ==
    {[g |-> CirclesGraph, path |-> Copies(u, m), unit |-> u, m |-> m] :
        u \in DecUnits, m \in 2..4}
    \cup UNION {{[g |-> g, path |-> p, unit |-> <<>>, m |-> 0] : p \in CircularWalks(g)} :
                   g \in {FlipGraph, BubbleGraph, LinkedBubbleGraph, TwoSiteGraph}}

\* the generator after generate_heuristic_paths has indexed the read paths and set
\* the coverages, and the path of the call to come
InitDec ==
    /\ \E c \in DecCases, sim \in {<<85, 100>>, <<1, 1>>} :
           /\ scn = [c.g @@ Config(1, TRUE, TRUE) EXCEPT !.min_unit_similarity = sim]
           /\ fn = [op |-> "none", path |-> c.path, unit |-> c.unit, m |-> c.m,
                    out |-> [kind |-> "none", units |-> <<>>]]
    /\ read_paths = CountReadPaths(scn, 1, EmptyMap, <<>>).read_paths
    /\ read_paths_counter = CountReadPaths(scn, 1, EmptyMap, <<>>).counter
    /\ starting_subpath_to_readpaths = index_subpaths(EmptyMap, StartSubpaths(read_paths))
    /\ middle_subpath_to_readpaths = index_subpaths(EmptyMap, MiddleSubpaths(read_paths))
    /\ read_paths_counter_indexed = TRUE
    /\ local_max_alignment_len = Max(alignment_lengths(scn))
    /\ contig_coverages = estimated_coverages(scn, read_paths)
    /\ candidate_single_copy_vs = estimate_single_copy_vertices(scn)
    /\ variants = <<>>
    /\ variants_counts = EmptyMap
    /\ pc = "idle"
    /\ eng = NoTraversal
    /\ count_search = 0
    /\ count_valid = 0
    /\ new_path_list = <<>>
    /\ calls = 0
    /\ error = "none"
    /\ InitWorkers

\* self.__decompose_hetero_units(circular_path)
CallDecompose ==
    /\ fn.op = "none"
    /\ \E r \in decompose_hetero_units(scn, Self, fn.path) :
           fn' = [fn EXCEPT !.op = "decompose_hetero_units", !.out = r]
    /\ UNCHANGED <<scn, index_vars, cov_vars, catalog_vars, pc, eng, count_search,
                   count_valid, new_path_list, calls, error, worker_vars>>

NextDec == CallDecompose

SpecDec == InitDec /\ [][NextDec]_vars

\* C19: the path made of m copies of a circular unit, m in 2..4, is decomposed into
\* exactly m units, each the canonical form of the unit, for every unit length and
\* every min_unit_similarity up to 1
C19_RepeatsDecomposeIntoUnits ==
    (fn.op = "decompose_hetero_units" /\ fn.m >= 2) =>
        /\ fn.out.kind = "list"
        /\ Len(fn.out.units) = fn.m
        /\ \A u \in DOMAIN fn.out.units :
               fn.out.units[u] = get_standardized_path_circ(scn, fn.unit)

\* no oriented contig occurs more than once in the path
no_repeated_contig(path) == Cardinality(Range(path)) = Len(path)

\* no scheme both qualifies and is supported by the read paths
no_valid_decomposition(g, o, path) ==
    \/ Len(path) < 4
    \/ no_repeated_contig(path)
    \/ supported_schemes(g, o, path) = {}

\* C20: whenever no valid decomposition exists (no oriented contig repeated, a path
\* shorter than 4 contigs, or every qualifying scheme rejected), the decomposer returns
\* the list holding only the original path
C20_NoDecompositionReturnsOriginal ==
    (fn.op = "decompose_hetero_units" /\ no_valid_decomposition(scn, Self, fn.path)) =>
        fn.out = [kind |-> "list", units |-> <<fn.path>>]

\* the starts at which the path is cut for the unit number c
tried_starts(g, o, path, c) ==
    LET with_copy == {v \in Range(path) : Count(path, v) = c}
        unit_sc_vertices == {v \in with_copy : Abs(v) \in o.candidate_single_copy_vs}
    IN  Range(sne_indices(path, IF unit_sc_vertices # {} THEN unit_sc_vertices
                                ELSE with_copy))

\* the scheme made of the units cut at start_n_e
split_scheme(g, path, start_n_e) ==
    sorted_paths([u \in DOMAIN units_from(path, start_n_e) |->
        get_standardized_path_circ(g, roll_path(g, units_from(path, start_n_e)[u]))])

\* the share of the path that the units cut at start_n_e have in common is at least
\* min_unit_similarity
share_at_least_similarity(g, path, num_units, start_n_e) ==
    LET units == units_from(path, start_n_e)
        shared(v) == CHOOSE m \in {Count(units[u], v) : u \in DOMAIN units} :
                         \A u \in DOMAIN units : m <= Count(units[u], v)
        total_base_len == SumOver(Range(path),
                              [v \in Range(path) |-> g.vertex_len[Abs(v)] * Count(path, v)])
        shared_len == SumOver(Range(path),
                          [v \in Range(path) |-> shared(v) * g.vertex_len[Abs(v)]])
    IN  num_units * shared_len * g.min_unit_similarity[2]
        >= g.min_unit_similarity[1] * total_base_len

\* every sub-path of the original path is a sub-path of a unit of the scheme
scheme_supported(g, o, path, this_scheme) ==
    get_variant_sub_paths(g, o, path)
    \subseteq UNION {get_variant_sub_paths(g, o, this_scheme[u]) : u \in DOMAIN this_scheme}

\* C21: a split whose shared length-weighted share is at least min_unit_similarity
\* (equal to it included) qualifies as a scheme, so that, when the read paths support
\* it, its units are among the returned ones
C21_ShareAtLeastSimilarityQualifies ==
    (fn.op = "decompose_hetero_units" /\ fn.out.kind = "list" /\ Len(fn.path) >= 4) =>
        \A c \in candidate_num_units(scn, Self, fn.path) :
            \A s \in tried_starts(scn, Self, fn.path, c) :
                (/\ share_at_least_similarity(scn, fn.path, c, s)
                 /\ scheme_supported(scn, Self, fn.path, split_scheme(scn, fn.path, s)))
                => Range(split_scheme(scn, fn.path, s)) \subseteq Range(fn.out.units)

\* the schemes of the splits that the code tries on the path
tried_schemes(g, o, path) ==
    UNION {{split_scheme(g, path, s) : s \in tried_starts(g, o, path, c)} :
              c \in candidate_num_units(g, o, path)}

\* the call returned units, not the list holding the original path only
decomposed ==
    /\ fn.op = "decompose_hetero_units"
    /\ fn.out.kind = "list"
    /\ fn.out.units # <<fn.path>>

\* C22: a returned decomposition loses no information: every sub-path of the original
\* path is a sub-path of a returned unit, and every returned unit comes from a scheme
\* whose units reproduce every sub-path of the original (a scheme that misses one
\* contributes no unit)
C22_DecompositionKeepsSubPaths ==
    decomposed =>
        /\ get_variant_sub_paths(scn, Self, fn.path)
           \subseteq UNION {get_variant_sub_paths(scn, Self, fn.out.units[u]) :
                              u \in DOMAIN fn.out.units}
        /\ \A u \in DOMAIN fn.out.units :
               \E sch \in tried_schemes(scn, Self, fn.path) :
                   /\ fn.out.units[u] \in Range(sch)
                   /\ scheme_supported(scn, Self, fn.path, sch)

\* units of two different isomers are returned and the original path has sub-paths
C22_Witness ==
    /\ decomposed
    /\ Cardinality(Range(fn.out.units)) >= 2
    /\ get_variant_sub_paths(scn, Self, fn.path) # {}

\* the number of contigs over the units of a list
RECURSIVE total_contigs(_)
total_contigs(units) ==
    IF units = <<>> THEN 0 ELSE Len(units[1]) + total_contigs(Tail(units))

\* the number of times the name of a contig occurs over the units of a list
RECURSIVE name_count(_, _)
name_count(units, name) ==
    IF units = <<>> THEN 0
    ELSE Cardinality({i \in DOMAIN units[1] : Abs(units[1][i]) = name})
         + name_count(Tail(units), name)

\* C30: a returned decomposition conserves the content of the path: the returned units
\* together hold every contig as many times as the original path, and as many contigs
\* in total as the path is long, also when several distinct schemes pass both tests
C30_DecompositionConservesContigs ==
    decomposed =>
        /\ total_contigs(fn.out.units) = Len(fn.path)
        /\ \A name \in Names(fn.path) :
               name_count(fn.out.units, name) = name_count(<<fn.path>>, name)

\* C30 as the code has it: the units of every scheme that passes both tests are
\* returned, and each scheme holds every contig as many times as the original path,
\* so the returned units hold it that many times for each passing scheme
C30_EachSchemeConservesContigs ==
    decomposed =>
        LET passed == Cardinality(supported_schemes(scn, Self, fn.path))
        IN  /\ passed >= 1
            /\ total_contigs(fn.out.units) = passed * Len(fn.path)
            /\ \A name \in Names(fn.path) :
                   name_count(fn.out.units, name)
                   = passed * name_count(<<fn.path>>, name)

\* the units of two distinct schemes were returned
C30_Witness ==
    /\ decomposed
    /\ Cardinality(supported_schemes(scn, Self, fn.path)) >= 2

====
